---- MODULE Spec2Model ----
(***************************************************************************)
(* Model of the scout pipeline (src/scout): the deduplication store, the   *)
(* dedup filter, article extraction, the relevance filter, company and     *)
(* person extraction, per-company person deduplication and cap, preference *)
(* vetting, the response gate, fit scoring, the score threshold, the       *)
(* output writers and the summary.                                         *)
(*                                                                         *)
(* Strings whose content the code inspects (lower(), strip(), "in") are    *)
(* sequences of one-character strings.  Strings the code only compares for *)
(* equality (links, company names) are atomic.  Scores are integers in     *)
(* hundredths (0.5 is 50).                                                 *)
(***************************************************************************)
EXTENDS Integers, Sequences, FiniteSets, TLC

VARIABLES
    seen_urls,      \* rows of table seen_urls, in insertion order
    clock,          \* datetime.now(), as a logical clock
    db_error,       \* TRUE when the last mark_seen raised
    probe,          \* last is_seen call: url, result, and whether url was marked before it
    marked,         \* history: urls for which a mark_seen call has returned
    pc,             \* position of ScoutPipeline.run
    rss_items,      \* run(): rss_items
    new_items,      \* run(): new_items
    articles,       \* run(): articles
    relevant_articles, \* run(): relevant_articles
    idx,            \* index of the loop of the current step
    companies,      \* run(): companies of the current article
    cidx,           \* index into companies
    all_company_people, \* run(): all_company_people of the current company
    deduped_people, \* run(): unique_people before the cap
    unique_people,  \* run(): unique_people after the cap
    pidx,           \* index into unique_people
    all_people,     \* run(): all_people (the accepted set)
    stats,          \* run(): stats
    config,         \* ScoutConfig: limits and debug_keep_nonmatching
    extract_calls,  \* history: link -> number of article_extractor.extract calls
    marked_before,  \* history: the urls marked seen before this run began
    rel_log,        \* history: oracle outcome of each relevance check of this run
    company_calls,  \* history: article urls handed to company_extractor.extract this run
    person_log,     \* history: one record per person iteration of this run
    exit_code,      \* result of cli.main for the last run (-1 while running)
    extract_log,    \* history: links handed to article_extractor.extract this run, in order
    csv_file,       \* data rows of the CSV output file (survives the process)
    sink_writes,    \* history: the write calls of this run on the output sinks
    summary,        \* the step 7 summary this run has logged (<<>> for none)
    budget,         \* what the feeds and the oracle may still return (model bound)
    fit_probe,      \* a vetting, preferences and weights handed to the scorer, and the fit score it returned
    team_probe,     \* a company, the answers of the website oracle and of the homepage fetch, and what find_team_urls did with them
    call_log,       \* history: the external calls and the politeness delays of the article loop, in order
    config2,        \* a second configuration the same person iterations are replayed under
    all_people2,    \* all_people of the replay under config2
    mentions_log    \* history: the mentions the company oracle returned for the current
                    \* article (kept by the article-iteration specification only)

storeVars == <<seen_urls, clock, db_error, probe, marked>>
auxVars == <<fit_probe, team_probe, call_log>>
replayVars == <<config2, all_people2, mentions_log, auxVars>>
runVars == <<pc, rss_items, new_items, articles, relevant_articles, idx,
             companies, cidx, all_company_people, deduped_people, unique_people,
             pidx, all_people, stats, config, extract_calls,
             marked_before, rel_log, company_calls, person_log,
             exit_code, budget, extract_log>>
outVars == <<csv_file, sink_writes, summary>>
vars == <<seen_urls, clock, db_error, probe, marked, pc, rss_items,
          new_items, articles, relevant_articles, idx, companies, cidx,
          all_company_people, deduped_people, unique_people, pidx, all_people,
          stats, config, extract_calls, marked_before, rel_log, company_calls,
          person_log, exit_code, budget, config2, all_people2, mentions_log, extract_log,
          csv_file, sink_writes, summary,
          fit_probe,
          team_probe,
          call_log>>

(***************************************************************************)
(* Bounds                                                                  *)
(***************************************************************************)
MaxClock == 4       \* store calls of the store-only specification
MaxItems == 2       \* feed items returned over all runs
MaxExtracted == 2   \* company mentions and people extracted over all runs
MaxCompanyPeople == 3 \* people found for the one company of the company-iteration specification
MaxAccepted == 3    \* accepted people of the output specification
MaxMentions == 3    \* mentions and people extracted in the article-iteration specification

(***************************************************************************)
(* Generic helpers                                                         *)
(***************************************************************************)
Range(s) == {s[i] : i \in 1..Len(s)}

Min(a, b) == IF a < b THEN a ELSE b

Max(a, b) == IF a > b THEN a ELSE b

\* Python s[:n] on a list: n >= 0 keeps the first n, n < 0 drops the last -n.
Slice(s, n) ==
    IF n >= 0 THEN SubSeq(s, 1, Min(n, Len(s)))
    ELSE SubSeq(s, 1, Max(0, Len(s) + n))

SeqsUpTo(S, n) == UNION {[1..k -> S] : k \in 0..n}

RECURSIVE Flatten(_)
Flatten(ss) == IF ss = <<>> THEN <<>> ELSE Head(ss) \o Flatten(Tail(ss))

(***************************************************************************)
(* str.lower(), str.strip() and the "in" operator on strings               *)
(***************************************************************************)
UpperCase == <<"A","B","C","D","E","F","G","H","I","J","K","L","M",
               "N","O","P","Q","R","S","T","U","V","W","X","Y","Z">>
LowerCase == <<"a","b","c","d","e","f","g","h","i","j","k","l","m",
               "n","o","p","q","r","s","t","u","v","w","x","y","z">>
Whitespace == {" ", "\t", "\n"}

\* str.lower() on one character
LowerOf == [c \in Range(UpperCase) |-> LowerCase[CHOOSE i \in 1..26 : UpperCase[i] = c]]

lower(s) == [i \in 1..Len(s) |-> IF s[i] \in DOMAIN LowerOf THEN LowerOf[s[i]] ELSE s[i]]

strip(s) ==
    LET keep == {i \in 1..Len(s) : s[i] \notin Whitespace}
    IN IF keep = {} THEN <<>>
       ELSE LET lo == CHOOSE i \in keep : \A j \in keep : i <= j
                hi == CHOOSE i \in keep : \A j \in keep : j <= i
            IN SubSeq(s, lo, hi)

\* Python "a in b" for strings
contains(a, b) ==
    \E k \in 0..(Len(b) - Len(a)) : SubSeq(b, k + 1, k + Len(a)) = a

(***************************************************************************)
(* Deduplication store (storage/database.py)                               *)
(***************************************************************************)
ItemTypes == {"article", "company", "person"}

\* Table seen_urls declares url unique (schema.sql is not part of src/).
SchemaUrlUnique == TRUE

\* One INSERT statement on seen_urls: or_replace is the conflict clause.
SqlInsert(rows, row, or_replace) ==
    LET conflict == SchemaUrlUnique /\ \E i \in 1..Len(rows) : rows[i].url = row.url
    IN IF ~conflict THEN [rows |-> Append(rows, row), err |-> FALSE]
       ELSE IF or_replace
            THEN [rows |-> Append(SelectSeq(rows, LAMBDA r : r.url # row.url), row),
                  err |-> FALSE]
            ELSE [rows |-> rows, err |-> TRUE]

is_seen(rows, url) == \E i \in 1..Len(rows) : rows[i].url = url

\* faulty variant: a plain INSERT
mark_seen_insert_only(rows, url, item_type, ts) ==
    SqlInsert(rows, [url |-> url, item_type |-> item_type, last_updated |-> ts], FALSE)

\* DedupeDatabase.mark_seen: INSERT OR REPLACE
mark_seen(rows, url, item_type, ts) ==
    SqlInsert(rows, [url |-> url, item_type |-> item_type, last_updated |-> ts], TRUE)

(***************************************************************************)
(* Per-company person deduplication (pipeline/runner.py)                   *)
(* A PersonExtraction is [full_name, linkedin_url]; None and "" are both   *)
(* the empty sequence (the code tests them by truthiness only).            *)
(***************************************************************************)
person_key(person) ==
    IF person.linkedin_url # <<>>
    THEN strip(lower(person.linkedin_url))
    ELSE strip(lower(person.full_name))

RECURSIVE dedup_loop(_, _, _)
dedup_loop(people, seen, unique) ==
    IF people = <<>> THEN unique
    ELSE LET person == Head(people)
             key == person_key(person)
         IN IF key \notin seen
            THEN dedup_loop(Tail(people), seen \cup {key}, Append(unique, person))
            ELSE dedup_loop(Tail(people), seen, unique)

\* faulty variant: the last entry of a key replaces the earlier one
RECURSIVE dedup_loop_last_wins(_, _, _)
dedup_loop_last_wins(people, seen, unique) ==
    IF people = <<>> THEN unique
    ELSE LET person == Head(people)
             key == person_key(person)
         IN dedup_loop_last_wins(Tail(people), seen \cup {key},
              Append(SelectSeq(unique, LAMBDA q : person_key(q) # key), person))

deduplicate_people_last_wins(people) == dedup_loop_last_wins(people, {}, <<>>)

deduplicate_people(people) == dedup_loop(people, {}, <<>>)

\* faulty variant: one person too many
cap_people_off_by_one(unique, max_people_per_company) ==
    Slice(unique, max_people_per_company + 1)

\* run(): unique_people[: self.config.limits.max_people_per_company]
cap_people(unique, max_people_per_company) == Slice(unique, max_people_per_company)

\* run(): all_company_people after the article-direct extend and one extend
\* per team URL, in URL order.
merge_people(article_people, team_people) == article_people \o Flatten(team_people)

(***************************************************************************)
(* Scoring (scoring/scorer.py)                                             *)
(* A PersonVetting is [school, role_category, seniority_level, location,   *)
(* industry_experience, matches_criteria].                                 *)
(***************************************************************************)
KwCLevel == <<<<"c","-","l","e","v","e","l">>, <<"c","e","o">>, <<"c","t","o">>, <<"c","f","o">>>>
KwVpDirector == <<<<"v","p">>, <<"d","i","r","e","c","t","o","r">>>>
KwSeniorIc == <<<<"s","e","n","i","o","r">>, <<"l","e","a","d">>, <<"s","t","a","f","f">>>>
KwRecruiting == <<<<"r","e","c","r","u","i","t","i","n","g">>, <<"h","r">>, <<"p","e","o","p","l","e">>>>
KwBdSales == <<<<"b","d">>, <<"b","u","s","i","n","e","s","s"," ","d","e","v","e","l","o","p","m","e","n","t">>, <<"s","a","l","e","s">>>>

\* any(x in text for x in keywords)
any_in(keywords, text) == \E i \in 1..Len(keywords) : contains(keywords[i], text)

BaseResponseScore == 50
CLevelAdjust == 20
VpDirectorAdjust == 10
SeniorIcAdjust == 10
InNewsAdjust == 20
RecruitingAdjust == 20
BdSalesAdjust == 15
MaxResponseScore == 100

seniority_adjust(vetting) ==
    IF vetting.seniority_level = <<>> THEN <<0, <<>>>>
    ELSE LET level_lower == lower(vetting.seniority_level)
         IN IF any_in(KwCLevel, level_lower) THEN <<0 - CLevelAdjust, <<"C-level">>>>
            ELSE IF any_in(KwVpDirector, level_lower)
                 THEN <<0 - VpDirectorAdjust, <<"Director/VP">>>>
            ELSE IF any_in(KwSeniorIc, level_lower)
                 THEN <<SeniorIcAdjust, <<"Senior IC">>>>
            ELSE <<0, <<>>>>

\* faulty variant: no bonus for the source article
news_adjust_never(has_source_article_url) ==
    <<0, <<>>>>

news_adjust(has_source_article_url) ==
    IF has_source_article_url THEN <<InNewsAdjust, <<"In the news">>>> ELSE <<0, <<>>>>

role_adjust(vetting) ==
    IF vetting.role_category = <<>> THEN <<0, <<>>>>
    ELSE LET role_lower == lower(vetting.role_category)
         IN IF any_in(KwRecruiting, role_lower)
            THEN <<RecruitingAdjust, <<"Recruiting">>>>
            ELSE IF any_in(KwBdSales, role_lower) THEN <<BdSalesAdjust, <<"BD/Sales">>>>
            ELSE <<0, <<>>>>

clamp_score(score) == Max(0, Min(MaxResponseScore, score))

calculate_response_score(vetting, has_source_article_url) ==
    LET s == seniority_adjust(vetting)
        n == news_adjust(has_source_article_url)
        r == role_adjust(vetting)
    IN [score |-> clamp_score(BaseResponseScore + s[1] + n[1] + r[1]),
        reasons |-> s[2] \o n[2] \o r[2]]

\* "for target in targets: if target.lower() in value.lower(): ...; break"
any_target_in(targets, value) ==
    \E i \in 1..Len(targets) : contains(lower(targets[i]), lower(value))

either_contains(targets, value) ==
    \E i \in 1..Len(targets) :
        \/ contains(lower(targets[i]), lower(value))
        \/ contains(lower(value), lower(targets[i]))

matched_industries(vetting, preferences) ==
    SelectSeq(vetting.industry_experience,
              LAMBDA industry : either_contains(preferences.industries, industry))

\* faulty variant: the industry weight added once, however many tags match
calculate_fit_score_industry_once(vetting, preferences, weights) ==
    LET school == IF vetting.school # <<>> /\ preferences.schools # <<>>
                     /\ any_target_in(preferences.schools, vetting.school)
                  THEN weights.school_match ELSE 0
        role == IF vetting.role_category # <<>> /\ preferences.roles # <<>>
                   /\ any_target_in(preferences.roles, vetting.role_category)
                THEN weights.role_match ELSE 0
        industry == IF vetting.industry_experience # <<>> /\ preferences.industries # <<>>
                       /\ matched_industries(vetting, preferences) # <<>>
                    THEN weights.industry_match
                    ELSE 0
        seniority == IF vetting.seniority_level # <<>> /\ preferences.seniority_levels # <<>>
                        /\ any_target_in(preferences.seniority_levels, vetting.seniority_level)
                     THEN weights.seniority_match ELSE 0
        location == IF vetting.location # <<>> /\ preferences.locations # <<>>
                       /\ either_contains(preferences.locations, vetting.location)
                    THEN weights.location_match ELSE 0
    IN school + role + industry + seniority + location

calculate_fit_score(vetting, preferences, weights) ==
    LET school == IF vetting.school # <<>> /\ preferences.schools # <<>>
                     /\ any_target_in(preferences.schools, vetting.school)
                  THEN weights.school_match ELSE 0
        role == IF vetting.role_category # <<>> /\ preferences.roles # <<>>
                   /\ any_target_in(preferences.roles, vetting.role_category)
                THEN weights.role_match ELSE 0
        industry == IF vetting.industry_experience # <<>> /\ preferences.industries # <<>>
                    THEN weights.industry_match * Len(matched_industries(vetting, preferences))
                    ELSE 0
        seniority == IF vetting.seniority_level # <<>> /\ preferences.seniority_levels # <<>>
                        /\ any_target_in(preferences.seniority_levels, vetting.seniority_level)
                     THEN weights.seniority_match ELSE 0
        location == IF vetting.location # <<>> /\ preferences.locations # <<>>
                       /\ either_contains(preferences.locations, vetting.location)
                    THEN weights.location_match ELSE 0
    IN school + role + industry + seniority + location

\* faulty variant: the response score counted twice in the total
score_person_response_twice(extraction, vetting, company, article_url, preferences, weights) ==
    LET fit_score == calculate_fit_score(vetting, preferences, weights)
        response == calculate_response_score(vetting, company.source_article_url # "")
    IN [full_name |-> extraction.full_name,
        linkedin_url |-> extraction.linkedin_url,
        company_name |-> company.name,
        company_url |-> company.team_page_url,
        fit_score |-> fit_score,
        response_score |-> response.score,
        total_score |-> fit_score + response.score + response.score,
        response_reasons |-> response.reasons,
        source_article_url |-> article_url]

\* PersonScorer.score_person
score_person(extraction, vetting, company, article_url, preferences, weights) ==
    LET fit_score == calculate_fit_score(vetting, preferences, weights)
        response == calculate_response_score(vetting, company.source_article_url # "")
    IN [full_name |-> extraction.full_name,
        linkedin_url |-> extraction.linkedin_url,
        company_name |-> company.name,
        company_url |-> company.team_page_url,
        fit_score |-> fit_score,
        response_score |-> response.score,
        total_score |-> fit_score + response.score,
        response_reasons |-> response.reasons,
        source_article_url |-> article_url]

(***************************************************************************)
(* Inputs of the pipeline: feed entries, oracle answers, configurations    *)
(***************************************************************************)
Feeds == <<"f1", "f2">>

\* what a fetch of each feed may return: the (link, guid) of its entries;
\* guid is the entry's id, else its link, else its title.  An empty answer
\* is also a failed fetch.
EntryA == [link |-> "a", guid |-> "a"]
EntryB == [link |-> "b", guid |-> "b"]
EntryNoLink == [link |-> "", guid |-> "g1"]

FeedPool ==
    << {<<>>, <<EntryA>>, <<EntryB>>, <<EntryA, EntryA>>},
       {<<>>, <<EntryA>>, <<EntryNoLink>>} >>

FeedResults(n) ==
    {fr \in [1..Len(Feeds) -> UNION Range(FeedPool)] :
        /\ \A f \in 1..Len(Feeds) : fr[f] \in FeedPool[f]
        /\ Len(fr[1]) + Len(fr[2]) <= n}

MentionPool == {[name |-> "Acme", team_page_url |-> ""],
                [name |-> "Acme", team_page_url |-> "acme/team"]}

PersonPool == {[full_name |-> <<"A","l">>, linkedin_url |-> <<"L">>],
               [full_name |-> <<"B","o">>, linkedin_url |-> <<>>]}

NoVetting == [school |-> <<>>, role_category |-> <<>>, seniority_level |-> <<>>,
              location |-> <<>>, industry_experience |-> <<>>,
              matches_criteria |-> FALSE]

VettingPool ==
    {[NoVetting EXCEPT !.role_category = <<"S","a","l","e","s">>,
                       !.matches_criteria = TRUE],
     [NoVetting EXCEPT !.seniority_level = <<"C","E","O">>,
                       !.role_category = <<"E","n","g","i","n","e","e","r","i","n","g">>],
     [NoVetting EXCEPT !.seniority_level = <<"S","e","n","i","o","r">>,
                       !.role_category = <<"R","e","c","r","u","i","t","i","n","g">>]}

Preferences == [schools |-> << <<"M","I","T">> >>,
                roles |-> << <<"e","n","g","i","n","e","e","r","i","n","g">> >>,
                industries |-> << <<"f","i","n","t","e","c","h">> >>,
                seniority_levels |-> << <<"s","e","n","i","o","r">> >>,
                locations |-> << <<"N","Y","C">> >>]

\* ScoringWeights defaults
ScoringWeights == [school_match |-> 100, role_match |-> 100, industry_match |-> 100,
                   seniority_match |-> 50, location_match |-> 30]

\* Limits defaults
DefaultConfig == [min_response_threshold |-> 30, min_score_threshold |-> 50,
                  debug_keep_nonmatching |-> FALSE,
                  max_people_per_company |-> 20, max_companies_per_article |-> 10]

\* the configurations a run may load: the defaults, and stricter gates with
\* debug mode and both caps at one
Configs ==
    {DefaultConfig,
     [DefaultConfig EXCEPT !.min_response_threshold = 60, !.min_score_threshold = 150,
                           !.debug_keep_nonmatching = TRUE,
                           !.max_people_per_company = 1,
                           !.max_companies_per_article = 1]}

Failed(empty) == [ok |-> FALSE, value |-> empty]
Answer(v) == [ok |-> TRUE, value |-> v]

ZeroStats == [article_people_extracted |-> 0, team_people_extracted |-> 0,
              people_vetted |-> 0, failed_vetting |-> 0,
              failed_response_gate |-> 0, failed_score_threshold |-> 0]

(***************************************************************************)
(* Feed ingestion and the dedup filter                                     *)
(***************************************************************************)
\* fetch_feed: one RSSItem per entry; a failed fetch is the empty list.
fetch_feed(feed_name, entries) ==
    [i \in 1..Len(entries) |->
        [link |-> entries[i].link, guid |-> entries[i].guid, feed_name |-> feed_name]]

fetch_all(feed_results) ==
    Flatten([f \in 1..Len(Feeds) |-> fetch_feed(Feeds[f], feed_results[f])])

\* faulty variant: the store asked for the guid
filter_new_items_by_guid(rows, items) ==
    SelectSeq(items, LAMBDA item : ~is_seen(rows, item.guid))

\* DedupeFilter.filter_new_items
filter_new_items(rows, items) ==
    SelectSeq(items, LAMBDA item : ~is_seen(rows, item.link))

\* mark_items_seen: one mark_seen per item, in order; the write of item
\* fail_at raises (0: no write fails) and the exception ends the loop.
RECURSIVE mark_items_loop(_, _, _, _, _)
mark_items_loop(rows, items, ts, fail_at, done) ==
    IF items = <<>> THEN [rows |-> rows, clock |-> ts, err |-> FALSE, done |-> done]
    ELSE IF fail_at = 1 THEN [rows |-> rows, clock |-> ts, err |-> TRUE, done |-> done]
    ELSE LET w == mark_seen(rows, Head(items).link, "article", ts)
         IN IF w.err THEN [rows |-> rows, clock |-> ts, err |-> TRUE, done |-> done]
            ELSE mark_items_loop(w.rows, Tail(items), ts + 1,
                                 IF fail_at = 0 THEN 0 ELSE fail_at - 1,
                                 done \cup {Head(items).link})

mark_items_seen(rows, items, ts, fail_at) == mark_items_loop(rows, items, ts, fail_at, {})

(***************************************************************************)
(* Oracle-backed steps                                                     *)
(***************************************************************************)
\* faulty variant: a failed call drops the article
is_relevant_fail_closed(outcome) == outcome = "yes"

\* RelevanceFilter.is_relevant: the oracle's answer, True when the call fails
is_relevant(outcome) == IF outcome = "fail" THEN TRUE ELSE outcome = "yes"

\* CompanyExtractor.extract
company_extract(outcome, article, max_companies) ==
    IF ~outcome.ok THEN <<>>
    ELSE LET kept == Slice(outcome.value, max_companies)
         IN [i \in 1..Len(kept) |->
                [name |-> kept[i].name, team_page_url |-> kept[i].team_page_url,
                 source_article_url |-> article.url]]

\* ArticlePeopleExtractor.extract and TeamPageExtractor.extract
people_extract(outcome) == IF outcome.ok THEN outcome.value ELSE <<>>

\* PersonVetter.vet: None when the oracle call fails
vet(outcome) == IF outcome.ok THEN outcome ELSE Failed(NoVetting)

TeamPaths == <<"/team", "/about", "/about-us", "/company", "/leadership",
               "/people", "/our-team", "/careers", "/about/team">>
TeamUrlCap == 5

\* position of the first character of s that is in chars, Len(s) + 1 for none
first_of(s, chars) ==
    LET hits == {i \in 1..Len(s) : s[i] \in chars}
    IN IF hits = {} THEN Len(s) + 1 ELSE CHOOSE i \in hits : \A j \in hits : i <= j

SchemeChars == Range(LowerCase) \cup Range(UpperCase) \cup {"+", "-", "."}

\* urllib.parse.urlparse, as far as scheme and netloc: the scheme is what
\* precedes the first ":" when it starts with a letter and holds scheme
\* characters only; the netloc follows "//" up to the next "/", "?" or "#";
\* a netloc with one of "[" and "]" but not the other raises ValueError.
urlparse(url) ==
    LET colon == first_of(url, {":"})
        has_scheme == /\ colon > 1 /\ colon <= Len(url)
                      /\ url[1] \in Range(LowerCase) \cup Range(UpperCase)
                      /\ \A i \in 1..(colon - 1) : url[i] \in SchemeChars
        scheme == IF has_scheme THEN lower(SubSeq(url, 1, colon - 1)) ELSE <<>>
        rest == IF has_scheme THEN SubSeq(url, colon + 1, Len(url)) ELSE url
        has_netloc == Len(rest) >= 2 /\ SubSeq(rest, 1, 2) = <<"/", "/">>
        after == SubSeq(rest, 3, Len(rest))
        netloc == IF has_netloc
                  THEN SubSeq(after, 1, first_of(after, {"/", "?", "#"}) - 1)
                  ELSE <<>>
    IN [raises |-> ("[" \in Range(netloc)) # ("]" \in Range(netloc)),
        scheme |-> scheme, netloc |-> netloc]

\* urllib.parse.uses_relative without the empty scheme: the schemes urljoin
\* resolves a relative reference against
UsesRelative ==
    {<<"f","i","l","e">>,
     <<"f","t","p">>,
     <<"g","o","p","h","e","r">>,
     <<"h","t","t","p">>,
     <<"h","t","t","p","s">>,
     <<"i","m","a","p">>,
     <<"m","m","s">>,
     <<"n","n","t","p">>,
     <<"p","r","o","s","p","e","r","o">>,
     <<"r","t","s","p">>,
     <<"r","t","s","p","s">>,
     <<"r","t","s","p","u">>,
     <<"s","f","t","p">>,
     <<"s","h","t","t","p">>,
     <<"s","v","n">>,
     <<"s","v","n","+","s","s","h">>,
     <<"w","a","i","s">>,
     <<"w","s">>,
     <<"w","s","s">>}

\* urljoin(base, path) for base = scheme + "://" + netloc and an absolute
\* path: without a scheme, or with one that is not in uses_relative, the
\* base contributes nothing and the path is returned alone.  A URL is the
\* pair of its scheme-and-host part and its path.
urljoin(parsed, path) ==
    IF parsed.scheme \notin UsesRelative THEN <<<<>>, path>>
    ELSE <<parsed.scheme \o <<":", "/", "/">> \o parsed.netloc, path>>

\* faulty variant: four path candidates only
generate_candidate_urls_four_paths(base_url) ==
    [i \in 1..4 |-> urljoin(urlparse(base_url), TeamPaths[i])]

\* _generate_candidate_urls; defined when urlparse does not raise
generate_candidate_urls(base_url) ==
    [i \in 1..Len(TeamPaths) |-> urljoin(urlparse(base_url), TeamPaths[i])]

RECURSIVE unique_urls(_, _)
unique_urls(urls, seen) ==
    IF urls = <<>> THEN <<>>
    ELSE IF Head(urls) \in seen THEN unique_urls(Tail(urls), seen)
    ELSE <<Head(urls)>> \o unique_urls(Tail(urls), seen \cup {Head(urls)})

\* find_team_urls raises when _generate_candidate_urls does: nothing on the
\* way from the resolved website to urlparse catches the ValueError
find_team_urls_raises(company, website_url) ==
    /\ company.team_page_url = ""
    /\ website_url # <<>>
    /\ urlparse(website_url).raises

\* faulty variant: the homepage links ahead of the path candidates
find_team_urls_links_first(company, website_url, homepage_links) ==
    IF company.team_page_url # "" THEN << <<company.team_page_url, "">> >>
    ELSE IF website_url = <<>> THEN <<>>
    ELSE Slice(unique_urls(homepage_links \o generate_candidate_urls(website_url), {}),
               TeamUrlCap)

\* find_team_urls, given the website its tiers 2 and 3 resolved (<<>> for
\* none) and the links the homepage scrape returned
find_team_urls(company, website_url, homepage_links) ==
    IF company.team_page_url # "" THEN << <<company.team_page_url, "">> >>
    ELSE IF website_url = <<>> THEN <<>>
    ELSE Slice(unique_urls(generate_candidate_urls(website_url) \o homepage_links, {}),
               TeamUrlCap)

(***************************************************************************)
(* Answers of the oracle and of the page fetches                           *)
(* A call that fails and a call that finds nothing both return the empty   *)
(* list to the pipeline; Failed stands for both.                           *)
(***************************************************************************)
NonEmptySeqs(S, n) == UNION {[1..k -> S] : k \in 1..n}

MentionAnswers(n) == {Failed(<<>>)} \cup {Answer(v) : v \in NonEmptySeqs(MentionPool, n)}

PeopleAnswers(pool, n) == {Failed(<<>>)} \cup {Answer(v) : v \in NonEmptySeqs(pool, n)}

\* one answer per team URL, n people at most over all of them
RECURSIVE TeamAnswers(_, _, _)
TeamAnswers(pool, k, n) ==
    IF k = 0 THEN {<<>>}
    ELSE UNION {{<<a>> \o rest : rest \in TeamAnswers(pool, k - 1, n - Len(a.value))} :
                a \in PeopleAnswers(pool, n)}

VettingAnswers == {Failed(NoVetting)} \cup {Answer(v) : v \in VettingPool}

\* the website tiers 2 and 3 of find_team_urls resolve (<<>> for none); the
\* one with the bracket can only be what the oracle of tier 2 answered
AcmeWebsite == <<"h","t","t","p",":","/","/","a",".","c","o">>
BracketWebsite == <<"h","t","t","p",":","/","/","[","a",".","c","o">>
Websites == {<<>>, AcmeWebsite, BracketWebsite}

\* what the homepage scrape returns
HomepageLinks == {<<>>, << <<AcmeWebsite, "/team">>, <<AcmeWebsite, "/crew">> >>}

(***************************************************************************)
(* The gates of one person iteration (run(), "Vet and score each person")  *)
(***************************************************************************)
Rejected(vetting, reason, gate_score) ==
    [vet_ok |-> vetting.ok, matches |-> vetting.value.matches_criteria,
     vetting |-> vetting.value,
     outcome |-> reason, gate_score |-> gate_score, accepted |-> <<>>]

\* faulty variant: no response gate
gate_person_no_response_gate(vetting, person, company, article_url, cfg) ==
    IF ~vetting.ok THEN Rejected(vetting, "failed_vetting", -1)
    ELSE IF ~vetting.value.matches_criteria /\ ~cfg.debug_keep_nonmatching
    THEN Rejected(vetting, "failed_vetting", -1)
    ELSE LET response_score ==
                 calculate_response_score(vetting.value,
                                          company.source_article_url # "").score
             scored_person == score_person(person, vetting.value, company,
                                           article_url, Preferences, ScoringWeights)
         IN IF scored_person.total_score >= cfg.min_score_threshold
            THEN [Rejected(vetting, "accepted", response_score)
                     EXCEPT !.accepted = <<scored_person>>]
            ELSE Rejected(vetting, "failed_score_threshold", response_score)

\* faulty variant: the response gate rejects the scores it should pass
gate_person_inverted_gate(vetting, person, company, article_url, cfg) ==
    IF ~vetting.ok THEN Rejected(vetting, "failed_vetting", -1)
    ELSE IF ~vetting.value.matches_criteria /\ ~cfg.debug_keep_nonmatching
    THEN Rejected(vetting, "failed_vetting", -1)
    ELSE LET response_score ==
                 calculate_response_score(vetting.value,
                                          company.source_article_url # "").score
         IN IF response_score >= cfg.min_response_threshold
            THEN Rejected(vetting, "failed_response_gate", response_score)
            ELSE LET scored_person == score_person(person, vetting.value, company,
                                                   article_url, Preferences, ScoringWeights)
                 IN IF scored_person.total_score >= cfg.min_score_threshold
                    THEN [Rejected(vetting, "accepted", response_score)
                             EXCEPT !.accepted = <<scored_person>>]
                    ELSE Rejected(vetting, "failed_score_threshold", response_score)

\* faulty variant: no score threshold
gate_person_no_score_check(vetting, person, company, article_url, cfg) ==
    IF ~vetting.ok THEN Rejected(vetting, "failed_vetting", -1)
    ELSE IF ~vetting.value.matches_criteria /\ ~cfg.debug_keep_nonmatching
    THEN Rejected(vetting, "failed_vetting", -1)
    ELSE LET response_score ==
                 calculate_response_score(vetting.value,
                                          company.source_article_url # "").score
         IN IF response_score < cfg.min_response_threshold
            THEN Rejected(vetting, "failed_response_gate", response_score)
            ELSE [Rejected(vetting, "accepted", response_score)
                     EXCEPT !.accepted = <<score_person(person, vetting.value, company,
                                              article_url, Preferences, ScoringWeights)>>]

\* faulty variant: the debug flag lets a non-matching person past every gate
gate_person_debug_skips_gates(vetting, person, company, article_url, cfg) ==
    IF ~vetting.ok THEN Rejected(vetting, "failed_vetting", -1)
    ELSE IF ~vetting.value.matches_criteria /\ ~cfg.debug_keep_nonmatching
    THEN Rejected(vetting, "failed_vetting", -1)
    ELSE LET response_score ==
                 calculate_response_score(vetting.value,
                                          company.source_article_url # "").score
             scored_person == score_person(person, vetting.value, company,
                                           article_url, Preferences, ScoringWeights)
         IN IF ~vetting.value.matches_criteria
            THEN [Rejected(vetting, "accepted", response_score)
                     EXCEPT !.accepted = <<scored_person>>]
            ELSE IF response_score < cfg.min_response_threshold
            THEN Rejected(vetting, "failed_response_gate", response_score)
            ELSE IF scored_person.total_score >= cfg.min_score_threshold
            THEN [Rejected(vetting, "accepted", response_score)
                     EXCEPT !.accepted = <<scored_person>>]
            ELSE Rejected(vetting, "failed_score_threshold", response_score)

\* run(), body of "for person in unique_people"
gate_person(vetting, person, company, article_url, cfg) ==
    IF ~vetting.ok THEN Rejected(vetting, "failed_vetting", -1)
    ELSE IF ~vetting.value.matches_criteria /\ ~cfg.debug_keep_nonmatching
    THEN Rejected(vetting, "failed_vetting", -1)
    ELSE LET response_score ==
                 calculate_response_score(vetting.value,
                                          company.source_article_url # "").score
         IN IF response_score < cfg.min_response_threshold
            THEN Rejected(vetting, "failed_response_gate", response_score)
            ELSE LET scored_person == score_person(person, vetting.value, company,
                                                   article_url, Preferences, ScoringWeights)
                 IN IF scored_person.total_score >= cfg.min_score_threshold
                    THEN [Rejected(vetting, "accepted", response_score)
                             EXCEPT !.accepted = <<scored_person>>]
                    ELSE Rejected(vetting, "failed_score_threshold", response_score)

\* faulty variant: a failed vetting call not counted as failed_vetting
count_outcome_failed_call_uncounted(st, result) ==
    LET vetted == [st EXCEPT !.people_vetted = @ + 1]
    IN IF result.outcome = "accepted" \/ ~result.vet_ok THEN vetted
       ELSE [vetted EXCEPT ![result.outcome] = @ + 1]

count_outcome(st, result) ==
    LET vetted == [st EXCEPT !.people_vetted = @ + 1]
    IN IF result.outcome = "accepted" THEN vetted
       ELSE [vetted EXCEPT ![result.outcome] = @ + 1]

(***************************************************************************)
(* ScoutPipeline.run, one action per external call                         *)
(***************************************************************************)
StoreIdle == /\ seen_urls = <<>> /\ clock = 0 /\ db_error = FALSE
             /\ probe = [url |-> "", seen |-> FALSE, was_marked |-> FALSE]
             /\ marked = {}

RunLocalsInit ==
    /\ rss_items = <<>> /\ new_items = <<>> /\ articles = <<>>
    /\ relevant_articles = <<>> /\ idx = 1 /\ companies = <<>> /\ cidx = 1
    /\ all_company_people = <<>> /\ deduped_people = <<>>
    /\ unique_people = <<>> /\ pidx = 1 /\ all_people = <<>>
    /\ stats = ZeroStats /\ rel_log = <<>> /\ company_calls = <<>>
    /\ person_log = <<>> /\ extract_log = <<>>
    /\ sink_writes = <<>> /\ summary = <<>>

Init ==
    /\ StoreIdle
    /\ RunLocalsInit
    /\ pc = "idle" /\ config = DefaultConfig
    /\ extract_calls = [l \in {EntryA.link, EntryB.link, EntryNoLink.link} |-> 0]
    /\ marked_before = {}
    /\ exit_code = -1
    /\ budget = [items |-> MaxItems, extracted |-> MaxExtracted]
    /\ config2 = DefaultConfig /\ all_people2 = <<>> /\ mentions_log = <<>>
    /\ call_log = <<>>
    /\ team_probe = <<>>
    /\ fit_probe = <<>>
    /\ csv_file = <<>>

\* Steps 1 and 2: a new process loads its configuration, fetches the feeds
\* and filters the items against the store.
RunBeginWith(cfg, feed_results) ==
    /\ LET items == fetch_all(feed_results)
           fresh == filter_new_items(seen_urls, items)
       IN /\ Len(items) <= budget.items
          /\ budget' = [budget EXCEPT !.items = @ - Len(items)]
          /\ rss_items' = items
          /\ new_items' = fresh
          /\ pc' = IF items = <<>> \/ fresh = <<>> THEN "done" ELSE "extract"
          /\ exit_code' = IF items = <<>> \/ fresh = <<>> THEN 0 ELSE -1
    /\ config' = cfg
    /\ marked_before' = marked
    /\ articles' = <<>> /\ relevant_articles' = <<>> /\ idx' = 1
    /\ companies' = <<>> /\ cidx' = 1
    /\ all_company_people' = <<>> /\ deduped_people' = <<>>
    /\ unique_people' = <<>> /\ pidx' = 1 /\ all_people' = <<>>
    /\ stats' = ZeroStats /\ rel_log' = <<>> /\ company_calls' = <<>>
    /\ person_log' = <<>> /\ extract_log' = <<>>
    /\ UNCHANGED <<storeVars, extract_calls>>
    /\ UNCHANGED <<replayVars, outVars>>

RunBegin ==
    /\ pc = "idle"
    /\ \E cfg \in Configs, fr \in FeedResults(budget.items) : RunBeginWith(cfg, fr)

\* Step 3, one item: article_extractor.extract(item.link, item.title); an
\* item without a link cannot be fetched.
ExtractArticleWith(ok) ==
    /\ LET item == new_items[idx]
       IN /\ ok => item.link # ""
          /\ articles' = IF ok THEN Append(articles, [url |-> item.link]) ELSE articles
          /\ extract_calls' = [extract_calls EXCEPT ![item.link] = @ + 1]
          /\ extract_log' = Append(extract_log, item.link)
    /\ IF idx < Len(new_items) THEN idx' = idx + 1 /\ pc' = pc
       ELSE idx' = 1 /\ pc' = "mark"
    /\ UNCHANGED <<storeVars, rss_items, new_items, relevant_articles,
                   companies, cidx, all_company_people, deduped_people,
                   unique_people, pidx, all_people, stats, config,
                   marked_before, rel_log, company_calls, person_log, exit_code,
                   budget>>
    /\ UNCHANGED <<replayVars, outVars>>

ExtractArticle == pc = "extract" /\ \E ok \in BOOLEAN : ExtractArticleWith(ok)

\* mark_items_seen(new_items), then the "No articles extracted" gate; an
\* exception leaves run() and cli.main returns 1
\* faulty variant: a failed store write is logged and the run goes on
MarkItemsSeenWith_error_logged(fail_at) ==
    /\ LET w == mark_items_seen(seen_urls, new_items, clock, fail_at)
       IN /\ seen_urls' = w.rows
          /\ clock' = w.clock
          /\ db_error' = w.err
          /\ marked' = marked \cup w.done
          /\ pc' = IF articles = <<>> THEN "done" ELSE "relevance"
          /\ exit_code' = IF articles = <<>> THEN 0 ELSE -1
    /\ UNCHANGED <<probe, rss_items, new_items, articles, relevant_articles,
                   idx, companies, cidx, all_company_people, deduped_people,
                   unique_people, pidx, all_people, stats, config,
                   extract_calls, marked_before, rel_log, company_calls, person_log,
                   budget, extract_log>>
    /\ UNCHANGED <<replayVars, outVars>>

\* faulty variant: the items are marked only when some article was extracted
MarkItemsSeenWith_after_gate(fail_at) ==
    /\ LET w == IF articles = <<>>
                THEN [rows |-> seen_urls, clock |-> clock, err |-> FALSE, done |-> {}]
                ELSE mark_items_seen(seen_urls, new_items, clock, fail_at)
       IN /\ seen_urls' = w.rows
          /\ clock' = w.clock
          /\ db_error' = w.err
          /\ marked' = marked \cup w.done
          /\ pc' = IF w.err \/ articles = <<>> THEN "done" ELSE "relevance"
          /\ exit_code' = IF w.err THEN 1 ELSE IF articles = <<>> THEN 0 ELSE -1
    /\ UNCHANGED <<probe, rss_items, new_items, articles, relevant_articles,
                   idx, companies, cidx, all_company_people, deduped_people,
                   unique_people, pidx, all_people, stats, config,
                   extract_calls, marked_before, rel_log, company_calls, person_log,
                   budget, extract_log>>
    /\ UNCHANGED <<replayVars, outVars>>

\* run(): mark_items_seen(new_items) after the extraction loop; a raise
\* leaves run() and cli.main returns 1
MarkItemsSeenWith(fail_at) ==
    /\ LET w == mark_items_seen(seen_urls, new_items, clock, fail_at)
       IN /\ seen_urls' = w.rows
          /\ clock' = w.clock
          /\ db_error' = w.err
          /\ marked' = marked \cup w.done
          /\ pc' = IF w.err \/ articles = <<>> THEN "done" ELSE "relevance"
          /\ exit_code' = IF w.err THEN 1 ELSE IF articles = <<>> THEN 0 ELSE -1
    /\ UNCHANGED <<probe, rss_items, new_items, articles, relevant_articles,
                   idx, companies, cidx, all_company_people, deduped_people,
                   unique_people, pidx, all_people, stats, config,
                   extract_calls, marked_before, rel_log, company_calls, person_log,
                   budget, extract_log>>
    /\ UNCHANGED <<replayVars, outVars>>

MarkItemsSeen == pc = "mark" /\ \E k \in 0..Len(new_items) : MarkItemsSeenWith(k)

\* Step 4, one article: relevance_filter.is_relevant(article)
RelevanceCheckWith(outcome) ==
    /\ LET relevant == IF is_relevant(outcome)
                       THEN Append(relevant_articles, articles[idx])
                       ELSE relevant_articles
       IN /\ relevant_articles' = relevant
          /\ rel_log' = Append(rel_log, outcome)
          /\ IF idx < Len(articles) THEN idx' = idx + 1 /\ pc' = pc /\ exit_code' = -1
             ELSE /\ idx' = 1
                  /\ pc' = IF relevant = <<>> THEN "done" ELSE "companies"
                  /\ exit_code' = IF relevant = <<>> THEN 0 ELSE -1
    /\ UNCHANGED <<storeVars, rss_items, new_items, articles, companies, cidx,
                   all_company_people, deduped_people,
                   unique_people, pidx,
                   all_people, stats, config, extract_calls,
                   marked_before, company_calls, person_log, budget, extract_log>>
    /\ UNCHANGED <<replayVars, outVars>>

RelevanceCheck ==
    pc = "relevance" /\ \E o \in {"yes", "no", "fail"} : RelevanceCheckWith(o)

\* Position after the current article: next article or step 6
AfterArticle ==
    /\ companies' = <<>> /\ cidx' = 1
    /\ IF idx < Len(relevant_articles)
       THEN pc' = "companies" /\ idx' = idx + 1
       ELSE pc' = "output" /\ idx' = 1

\* Position after the current company: next company or next article.  The
\* locals of the company iteration are dead from here on and are cleared.
AfterCompany ==
    /\ all_company_people' = <<>> /\ deduped_people' = <<>>
    /\ unique_people' = <<>> /\ pidx' = 1
    /\ IF cidx < Len(companies)
       THEN pc' = "people" /\ cidx' = cidx + 1 /\ UNCHANGED <<idx, companies>>
       ELSE AfterArticle

\* Step 5, one article: company_extractor.extract(article)
ExtractCompaniesWith(outcome) ==
    /\ Len(outcome.value) <= budget.extracted
    /\ budget' = [budget EXCEPT !.extracted = @ - Len(outcome.value)]
    /\ LET comps == company_extract(outcome, relevant_articles[idx],
                                    config.max_companies_per_article)
       IN IF comps # <<>>
          THEN /\ companies' = comps
               /\ pc' = "people" /\ cidx' = 1 /\ idx' = idx
          ELSE AfterArticle
    /\ company_calls' = Append(company_calls, relevant_articles[idx].url)
    /\ UNCHANGED <<storeVars, rss_items, new_items, articles,
                   relevant_articles, all_company_people, deduped_people,
                   unique_people, pidx, all_people, stats, config,
                   extract_calls, marked_before, rel_log, person_log, exit_code,
                   extract_log>>
    /\ UNCHANGED outVars

ExtractCompanies ==
    /\ pc = "companies"
    /\ \E o \in MentionAnswers(budget.extracted) : ExtractCompaniesWith(o)
    /\ UNCHANGED replayVars

\* One company, up to the person loop: article_people_extractor.extract,
\* find_team_urls, team_extractor.extract for each team URL in order,
\* _deduplicate_people and the cap; with nobody left, the next company
CollectPeopleWith(outcome, team_outcomes) ==
    /\ LET article_people == people_extract(outcome)
           team_people == [i \in 1..Len(team_outcomes) |-> people_extract(team_outcomes[i])]
           people == merge_people(article_people, team_people)
           deduped == deduplicate_people(people)
           capped == cap_people(deduped, config.max_people_per_company)
       IN /\ budget' = [budget EXCEPT !.extracted = @ - Len(people)]
          /\ stats' = [stats EXCEPT
                         !.article_people_extracted = @ + Len(article_people),
                         !.team_people_extracted = @ + Len(Flatten(team_people))]
          /\ IF capped # <<>>
             THEN /\ all_company_people' = people
                  /\ deduped_people' = deduped
                  /\ unique_people' = capped
                  /\ pidx' = 1
                  /\ pc' = "vet"
                  /\ UNCHANGED <<idx, cidx, companies>>
             ELSE AfterCompany
    /\ UNCHANGED <<storeVars, rss_items, new_items, articles,
                   relevant_articles, all_people, config, extract_calls,
                   marked_before, rel_log, company_calls, person_log, exit_code,
                   extract_log>>

CollectPeople ==
    /\ pc = "people"
    /\ \E o \in PeopleAnswers(PersonPool, budget.extracted),
          w \in Websites, h \in HomepageLinks :
         /\ ~find_team_urls_raises(companies[cidx], w)
         /\ \E t \in TeamAnswers(PersonPool, Len(find_team_urls(companies[cidx], w, h)),
                              budget.extracted - Len(o.value)) :
            CollectPeopleWith(o, t)

\* The same company iteration when find_team_urls raises: the article
\* people were extracted and counted, the exception leaves run() and
\* cli.main returns 1
CollectPeopleRaisesWith(outcome) ==
    /\ LET article_people == people_extract(outcome)
       IN /\ budget' = [budget EXCEPT !.extracted = @ - Len(article_people)]
          /\ stats' = [stats EXCEPT
                         !.article_people_extracted = @ + Len(article_people)]
          /\ all_company_people' = article_people
    /\ pc' = "done" /\ exit_code' = 1
    /\ UNCHANGED <<storeVars, rss_items, new_items, articles, relevant_articles,
                   idx, companies, cidx, deduped_people, unique_people, pidx,
                   all_people, config, extract_calls, marked_before, rel_log,
                   company_calls, person_log, extract_log, outVars>>

CollectPeopleRaises ==
    /\ pc = "people"
    /\ \E o \in PeopleAnswers(PersonPool, budget.extracted), w \in Websites :
         /\ find_team_urls_raises(companies[cidx], w)
         /\ CollectPeopleRaisesWith(o)
    /\ UNCHANGED replayVars

\* One person: person_vetter.vet, the response gate, score_person, the
\* score threshold
VetPersonWith(outcome) ==
    /\ LET result == gate_person(vet(outcome), unique_people[pidx], companies[cidx],
                                 relevant_articles[idx].url, config)
       IN /\ all_people' = all_people \o result.accepted
          /\ stats' = count_outcome(stats, result)
          /\ person_log' = Append(person_log, result)
    /\ IF pidx < Len(unique_people)
       THEN /\ pidx' = pidx + 1
            /\ UNCHANGED <<pc, idx, cidx, companies, all_company_people,
                           deduped_people, unique_people>>
       ELSE AfterCompany
    /\ UNCHANGED <<storeVars, rss_items, new_items, articles,
                   relevant_articles, config, extract_calls, marked_before, rel_log,
                   company_calls, exit_code, budget, extract_log>>

VetPerson == pc = "vet" /\ \E o \in VettingAnswers : VetPersonWith(o)

\* sorted(people, key=total_score, reverse=True): a stable insertion sort,
\* equal keys keep their order
RECURSIVE insert_by_total_score(_, _)
insert_by_total_score(sorted, p) ==
    IF sorted = <<>> THEN <<p>>
    ELSE IF Head(sorted).total_score >= p.total_score
    THEN <<Head(sorted)>> \o insert_by_total_score(Tail(sorted), p)
    ELSE <<p>> \o sorted

RECURSIVE sort_loop(_, _)
sort_loop(people, sorted) ==
    IF people = <<>> THEN sorted
    ELSE sort_loop(Tail(people), insert_by_total_score(sorted, Head(people)))

sorted_by_total_score(people) == sort_loop(people, <<>>)

\* OutputRow.from_scored_person
from_scored_person(person) ==
    [name |-> person.full_name,
     company |-> person.company_name,
     fit_score |-> person.fit_score,
     response_score |-> person.response_score,
     total_score |-> person.total_score,
     response_reasons |-> person.response_reasons,
     source_article_url |-> person.source_article_url,
     linkedin_url |-> person.linkedin_url]

\* faulty variant: the rows are written in the order of the accepted set
output_rows_unsorted(people) ==
    [i \in 1..Len(people) |-> from_scored_person(people[i])]

\* the rows CSVWriter.write and GoogleSheetsWriter.write build
output_rows(people) ==
    LET people_sorted == sorted_by_total_score(people)
    IN [i \in 1..Len(people_sorted) |-> from_scored_person(people_sorted[i])]

\* how a write on a sink can end; "none" is a run without a sheets writer
CsvOutcomes == {"ok", "open_fails", "write_fails"}
SheetsOutcomes == {"none", "ok", "fails"}

\* the step 7 summary
stage_counts ==
    [fetched |-> Len(rss_items), new |-> Len(new_items),
     extracted |-> Len(articles), relevant |-> Len(relevant_articles),
     accepted |-> Len(all_people)]

\* faulty variant: the writers are called with an empty accepted set too
FinishRunWith_writes_empty(csv, sheets) ==
    /\ pc' = "done"
    /\ LET rows == output_rows(all_people)
           csv_write == [sink |-> "csv", rows |-> rows, ok |-> csv = "ok"]
           sheets_write == [sink |-> "sheets", rows |-> rows, ok |-> sheets = "ok"]
       IN IF csv # "ok"
          THEN /\ exit_code' = 1
               /\ csv_file' = IF csv = "open_fails" THEN csv_file ELSE <<>>
               /\ sink_writes' = Append(sink_writes, csv_write)
               /\ UNCHANGED summary
          ELSE /\ exit_code' = 0
               /\ csv_file' = rows
               /\ sink_writes' = IF sheets = "none"
                                 THEN Append(sink_writes, csv_write)
                                 ELSE Append(sink_writes, csv_write) \o <<sheets_write>>
               /\ summary' = <<stage_counts>>
    /\ UNCHANGED <<storeVars, rss_items, new_items, articles,
                   relevant_articles, idx, companies, cidx, all_company_people, deduped_people,
                   unique_people, pidx, all_people,
                   stats, config, extract_calls, marked_before, rel_log,
                   company_calls, person_log, budget, extract_log>>
    /\ UNCHANGED replayVars

\* faulty variant: the rows appended to the file of the earlier runs
FinishRunWith_appends(csv, sheets) ==
    /\ pc' = "done"
    /\ IF all_people = <<>>
       THEN /\ exit_code' = 0
            /\ UNCHANGED outVars
       ELSE LET rows == output_rows(all_people)
                csv_write == [sink |-> "csv", rows |-> rows, ok |-> csv = "ok"]
                sheets_write == [sink |-> "sheets", rows |-> rows, ok |-> sheets = "ok"]
            IN IF csv # "ok"
               THEN /\ exit_code' = 1
                    /\ csv_file' = IF csv = "open_fails" THEN csv_file ELSE <<>>
                    /\ sink_writes' = Append(sink_writes, csv_write)
                    /\ UNCHANGED summary
               ELSE /\ exit_code' = 0
                    /\ csv_file' = csv_file \o rows
                    /\ sink_writes' = IF sheets = "none"
                                      THEN Append(sink_writes, csv_write)
                                      ELSE Append(sink_writes, csv_write) \o <<sheets_write>>
                    /\ summary' = <<stage_counts>>
    /\ UNCHANGED <<storeVars, rss_items, new_items, articles,
                   relevant_articles, idx, companies, cidx, all_company_people, deduped_people,
                   unique_people, pidx, all_people,
                   stats, config, extract_calls, marked_before, rel_log,
                   company_calls, person_log, budget, extract_log>>
    /\ UNCHANGED replayVars

\* Steps 6 and 7: output and summary; run() returns.  An empty accepted
\* set returns before any write and before the summary; a CSV failure
\* propagates; a sheets failure is logged and the run goes on.
FinishRunWith(csv, sheets) ==
    /\ pc' = "done"
    /\ IF all_people = <<>>
       THEN /\ exit_code' = 0
            /\ UNCHANGED outVars
       ELSE LET rows == output_rows(all_people)
                csv_write == [sink |-> "csv", rows |-> rows, ok |-> csv = "ok"]
                sheets_write == [sink |-> "sheets", rows |-> rows, ok |-> sheets = "ok"]
            IN IF csv # "ok"
               THEN /\ exit_code' = 1
                    /\ csv_file' = IF csv = "open_fails" THEN csv_file ELSE <<>>
                    /\ sink_writes' = Append(sink_writes, csv_write)
                    /\ UNCHANGED summary
               ELSE /\ exit_code' = 0
                    /\ csv_file' = rows
                    /\ sink_writes' = IF sheets = "none"
                                      THEN Append(sink_writes, csv_write)
                                      ELSE Append(sink_writes, csv_write) \o <<sheets_write>>
                    /\ summary' = <<stage_counts>>
    /\ UNCHANGED <<storeVars, rss_items, new_items, articles,
                   relevant_articles, idx, companies, cidx, all_company_people, deduped_people,
                   unique_people, pidx, all_people,
                   stats, config, extract_calls, marked_before, rel_log,
                   company_calls, person_log, budget, extract_log>>
    /\ UNCHANGED replayVars

FinishRun ==
    pc = "output" /\ \E csv \in CsvOutcomes, sheets \in SheetsOutcomes : FinishRunWith(csv, sheets)

\* cli.main returns exit_code and the process ends: nothing but the store
\* and the output file survives it
ProcessExit ==
    /\ pc = "done"
    /\ pc' = "idle" /\ exit_code' = -1 /\ config' = DefaultConfig
    /\ marked_before' = {}
    /\ rss_items' = <<>> /\ new_items' = <<>> /\ articles' = <<>>
    /\ relevant_articles' = <<>> /\ idx' = 1 /\ companies' = <<>> /\ cidx' = 1
    /\ all_company_people' = <<>> /\ deduped_people' = <<>>
    /\ unique_people' = <<>> /\ pidx' = 1 /\ all_people' = <<>>
    /\ stats' = ZeroStats /\ rel_log' = <<>> /\ company_calls' = <<>>
    /\ person_log' = <<>> /\ extract_log' = <<>>
    /\ sink_writes' = <<>> /\ summary' = <<>>
    /\ db_error' = FALSE
    /\ UNCHANGED <<seen_urls, clock, probe, marked, extract_calls, budget, csv_file>>
    /\ UNCHANGED replayVars

\* the pipeline proper replays nothing
CollectPeople_ == CollectPeople /\ UNCHANGED <<replayVars, outVars>>

VetPerson_ == VetPerson /\ UNCHANGED <<replayVars, outVars>>

Next ==
    \/ RunBegin
    \/ ExtractArticle
    \/ MarkItemsSeen
    \/ RelevanceCheck
    \/ ExtractCompanies
    \/ CollectPeople_
    \/ CollectPeopleRaises
    \/ VetPerson_
    \/ FinishRun
    \/ ProcessExit

Spec == Init /\ [][Next]_vars

(***************************************************************************)
(* The dedup store on its own: any sequence of mark_seen and is_seen calls *)
(***************************************************************************)
StoreUrls == {"a", "b", ""}

\* DedupeDatabase.mark_seen(url, item_type)
StoreMarkSeen(url, item_type) ==
    /\ clock < MaxClock
    /\ LET w == mark_seen(seen_urls, url, item_type, clock + 1)
       IN /\ seen_urls' = w.rows
          /\ db_error' = w.err
          /\ marked' = IF w.err THEN marked ELSE marked \cup {url}
    /\ clock' = clock + 1
    /\ UNCHANGED <<probe, runVars, replayVars, outVars>>

\* DedupeDatabase.is_seen(url)
StoreIsSeen(url) ==
    /\ probe' = [url |-> url, seen |-> is_seen(seen_urls, url),
                 was_marked |-> url \in marked]
    /\ UNCHANGED <<seen_urls, clock, db_error, marked, runVars, replayVars, outVars>>

StoreMark == \E url \in StoreUrls, item_type \in ItemTypes : StoreMarkSeen(url, item_type)

StoreProbe == \E url \in StoreUrls : StoreIsSeen(url)

NextStore == StoreMark \/ StoreProbe

SpecStore == Init /\ [][NextStore]_vars

\* C1: after any sequence of mark_seen calls the store holds at most one
\* record per url, no mark_seen call has raised, every url a mark_seen call
\* returned for is_seen, and an is_seen call made after a mark_seen of its url
\* answered True.
C1_StoreIdempotent ==
    /\ \A i, j \in 1..Len(seen_urls) : seen_urls[i].url = seen_urls[j].url => i = j
    /\ ~db_error
    /\ \A url \in marked : is_seen(seen_urls, url)
    /\ probe.was_marked => probe.seen

\* C1 witness: a url marked a second time (its one record carries the second
\* call's time) and then probed
C1_MarkedTwice ==
    /\ Len(seen_urls) = 1 /\ seen_urls[1].last_updated = 2
    /\ probe.url = seen_urls[1].url /\ probe.was_marked

(***************************************************************************)
(* Claims on the pipeline (Spec)                                           *)
(***************************************************************************)
Links(items) == {items[i].link : i \in 1..Len(items)}

\* C2: no item in the list of new items the dedup filter returned carries a
\* link that a previous run marked seen, whatever else that run did with it.
C2_SeenItemsExcluded == Links(new_items) \cap marked_before = {}

\* C2 witness: a run that fetched an item an earlier run had marked seen
C2_RefetchedSeenItem ==
    /\ pc # "idle"
    /\ Links(rss_items) \cap marked_before # {}

\* C3: the article extractor is invoked at most once for every link, over
\* all runs.
C3_ExtractedAtMostOnce == \A link \in DOMAIN extract_calls : extract_calls[link] <= 1

Accepted(log) == {i \in 1..Len(log) : log[i].accepted # <<>>}

\* all_people is exactly the people accepted by the person iterations so
\* far, in order
AcceptedInOrder ==
    all_people = Flatten([i \in 1..Len(person_log) |-> person_log[i].accepted])

\* C4: every accepted person has response_score >= min_response_threshold
\* and total_score >= min_score_threshold and, unless debug_keep_nonmatching
\* is set, a successful vetting with matches_criteria; a person rejected at
\* any stage is not in the accepted set at any later point of the run.
C4_AcceptedPassedEveryGate ==
    /\ AcceptedInOrder
    /\ \A i \in Accepted(person_log) :
          LET person == person_log[i].accepted[1]
          IN /\ person.response_score >= config.min_response_threshold
             /\ person.total_score >= config.min_score_threshold
             /\ \/ config.debug_keep_nonmatching
                \/ person_log[i].vet_ok /\ person_log[i].matches

\* C4 witness: a debug-mode run accepted a person that does not match the
\* criteria, with a total score exactly at the threshold
C4_AcceptedInDebugMode ==
    \E i \in Accepted(person_log) :
        /\ config.debug_keep_nonmatching /\ ~person_log[i].matches
        /\ person_log[i].accepted[1].total_score = config.min_score_threshold
        /\ all_people # <<>>

\* C5 as stated: every accepted person has fit_score >= min_score_threshold.
C5_FitScoreAboveThreshold ==
    \A i \in 1..Len(all_people) : all_people[i].fit_score >= config.min_score_threshold

\* C5 amended: every accepted person has fit_score + response_score >=
\* min_score_threshold; the fit score alone may lie below the threshold.
C5_FitPlusResponseAboveThreshold ==
    \A i \in 1..Len(all_people) :
        all_people[i].fit_score + all_people[i].response_score
            >= config.min_score_threshold

\* C5 witness: an accepted person whose fit score is below the threshold
C5_AcceptedBelowFitThreshold ==
    \E i \in 1..Len(all_people) : all_people[i].fit_score < config.min_score_threshold

\* C6: for every accepted person total_score = fit_score + response_score,
\* response_score lies in [0, 1], and the stored response_score is the value
\* the response gate compared.
C6_ScoreComposition ==
    \A i \in Accepted(person_log) :
        LET person == person_log[i].accepted[1]
        IN /\ person.total_score = person.fit_score + person.response_score
           /\ 0 <= person.response_score /\ person.response_score <= MaxResponseScore
           /\ person.response_score = person_log[i].gate_score

\* C6 witness: an accepted person with a positive fit score and a response
\* score the clamp had to cut
C6_AcceptedWithBothScores ==
    \E i \in 1..Len(all_people) :
        /\ all_people[i].fit_score > 0
        /\ all_people[i].response_score = MaxResponseScore

\* C10: an article whose relevance call failed is kept as relevant and is
\* handed to company extraction; a person whose vetting call failed is
\* counted as failed vetting, reaches neither the response gate nor the
\* accepted set, debug_keep_nonmatching or not.
C10_FailOpenFailClosed ==
    /\ relevant_articles =
         Flatten([i \in 1..Len(rel_log) |->
                     IF rel_log[i] \in {"yes", "fail"} THEN <<articles[i]>> ELSE <<>>])
    /\ pc = "output" =>
         company_calls = [i \in 1..Len(relevant_articles) |-> relevant_articles[i].url]
    /\ \A i \in 1..Len(person_log) :
          ~person_log[i].vet_ok =>
             /\ person_log[i].outcome = "failed_vetting"
             /\ person_log[i].gate_score = -1
             /\ person_log[i].accepted = <<>>
    /\ stats.failed_vetting >=
         Cardinality({i \in 1..Len(person_log) : ~person_log[i].vet_ok})

\* C10 witness: a finished debug-mode run with a failed relevance call and a
\* failed vetting call
C10_BothCallsFailed ==
    /\ pc = "output"
    /\ config.debug_keep_nonmatching
    /\ \E i \in 1..Len(rel_log) : rel_log[i] = "fail"
    /\ \E i \in 1..Len(person_log) : ~person_log[i].vet_ok

(***************************************************************************)
(* One company iteration on its own: the people of the article and of the  *)
(* team pages are merged, deduplicated and capped                          *)
(***************************************************************************)
\* people whose keys collide through case and whitespace
CollidingPeople ==
    {[full_name |-> <<"A","l">>, linkedin_url |-> <<"L">>],
     [full_name |-> <<"A","L">>, linkedin_url |-> <<"l"," ">>],
     [full_name |-> <<"B","o">>, linkedin_url |-> <<>>],
     [full_name |-> <<" ","b","o">>, linkedin_url |-> <<>>]}

\* Limits accepts any integer for max_people_per_company
PeopleCaps == {-1, 0, 1, 20}

ArticleA == [url |-> "a"]

\* run() at the head of the company loop of its first relevant article
InitPeople ==
    /\ seen_urls = <<[url |-> "a", item_type |-> "article", last_updated |-> 0]>>
    /\ clock = 1 /\ db_error = FALSE /\ marked = {"a"}
    /\ probe = [url |-> "", seen |-> FALSE, was_marked |-> FALSE]
    /\ pc = "people"
    /\ rss_items = fetch_all(<<<<EntryA>>, <<>>>>)
    /\ new_items = rss_items
    /\ articles = <<ArticleA>> /\ relevant_articles = <<ArticleA>> /\ idx = 1
    /\ \E m \in MentionPool :
          companies = company_extract(Answer(<<m>>), ArticleA,
                                      DefaultConfig.max_companies_per_article)
    /\ cidx = 1
    /\ all_company_people = <<>> /\ deduped_people = <<>> /\ unique_people = <<>>
    /\ pidx = 1 /\ all_people = <<>> /\ stats = ZeroStats
    /\ config \in {[DefaultConfig EXCEPT !.max_people_per_company = n] : n \in PeopleCaps}
    /\ extract_calls = [l \in {EntryA.link, EntryB.link, EntryNoLink.link} |->
                           IF l = "a" THEN 1 ELSE 0]
    /\ marked_before = {}
    /\ rel_log = <<"yes">> /\ company_calls = <<"a">> /\ person_log = <<>>
    /\ exit_code = -1
    /\ budget = [items |-> 0, extracted |-> MaxCompanyPeople]
    /\ config2 = DefaultConfig /\ all_people2 = <<>>
    /\ extract_log = <<"a">>
    /\ csv_file = <<>> /\ sink_writes = <<>> /\ summary = <<>>
    /\ mentions_log = <<>>
    /\ call_log = <<>>
    /\ team_probe = <<>>
    /\ fit_probe = <<>>

CollectCollidingPeople ==
    /\ pc = "people"
    /\ \E o \in PeopleAnswers(CollidingPeople, budget.extracted), w \in Websites :
         /\ ~find_team_urls_raises(companies[cidx], w)
         /\ \E t \in TeamAnswers(CollidingPeople, Len(find_team_urls(companies[cidx], w, <<>>)),
                              budget.extracted - Len(o.value)) :
            CollectPeopleWith(o, t)
    /\ UNCHANGED <<replayVars, outVars>>

NextPeople == CollectCollidingPeople \/ VetPerson_

SpecPeople == InitPeople /\ [][NextPeople]_vars

\* C8: the list of people vetted for a company has length at most
\* max_people_per_company and is the first max_people_per_company entries of
\* the deduplicated list, for every configured max_people_per_company.
C8_CapEnforced ==
    pc = "vet" =>
        /\ Len(unique_people) <= config.max_people_per_company
        /\ unique_people = SubSeq(deduped_people, 1,
                                  Min(Len(deduped_people), config.max_people_per_company))

\* C8 restricted to max_people_per_company >= 0, where the slice is a prefix
C8_CapEnforcedNonNegative == config.max_people_per_company >= 0 => C8_CapEnforced

\* a company with a cap of one and two distinct people found
C8_CapCutsList == pc = "vet" /\ Len(deduped_people) > Len(unique_people)
                  /\ config.max_people_per_company >= 0

\* the key the claim names
ClaimKey(person) ==
    IF person.linkedin_url # <<>> THEN strip(lower(person.linkedin_url))
    ELSE strip(lower(person.full_name))

\* the positions of s that hold the first entry of their key
FirstOfKey(s) ==
    {i \in 1..Len(s) : \A j \in 1..(i - 1) : ClaimKey(s[j]) # ClaimKey(s[i])}

\* C9: the deduplicated list has no two entries with the same key (the
\* lower-cased, stripped linkedin_url when present, else the lower-cased,
\* stripped full_name), and it is the first-discovered entry of every key,
\* in discovery order.
C9_FirstOfEachKeyInOrder ==
    LET first == FirstOfKey(all_company_people)
    IN /\ \A i, j \in 1..Len(deduped_people) :
            ClaimKey(deduped_people[i]) = ClaimKey(deduped_people[j]) => i = j
       /\ Len(deduped_people) = Cardinality(first)
       /\ \A i \in first :
            deduped_people[Cardinality({j \in first : j <= i})] = all_company_people[i]

\* C9 witness: the article and a team page each named one person, the two
\* records differ but share the linkedin_url up to case and whitespace, and
\* the deduplicated list holds the article's record only
C9_SamePersonFromBothSources ==
    /\ stats.article_people_extracted = 1 /\ stats.team_people_extracted = 1
    /\ Len(all_company_people) = 2
    /\ all_company_people[1] # all_company_people[2]
    /\ all_company_people[1].linkedin_url # <<>>
    /\ deduped_people = <<all_company_people[1]>>

(***************************************************************************)
(* The person loop of one company, run under two configurations on the     *)
(* same people and the same vetting answers                                *)
(***************************************************************************)
ResponseThresholds == {0, 30, 60, 90}
ScoreThresholds == {50, 100, 150, 200}

GateConfigs ==
    {[DefaultConfig EXCEPT !.min_response_threshold = r, !.min_score_threshold = t,
                           !.debug_keep_nonmatching = d] :
        r \in ResponseThresholds, t \in ScoreThresholds, d \in BOOLEAN}

\* what dedup and cap may leave of PersonPool
GatePeople == {s \in SeqsUpTo(PersonPool, Cardinality(PersonPool)) :
                 /\ s # <<>>
                 /\ \A i, j \in 1..Len(s) : s[i] = s[j] => i = j}

\* run() at the head of the person loop of its first company
InitGate ==
    /\ seen_urls = <<[url |-> "a", item_type |-> "article", last_updated |-> 0]>>
    /\ clock = 1 /\ db_error = FALSE /\ marked = {"a"}
    /\ probe = [url |-> "", seen |-> FALSE, was_marked |-> FALSE]
    /\ pc = "vet"
    /\ rss_items = fetch_all(<<<<EntryA>>, <<>>>>)
    /\ new_items = rss_items
    /\ articles = <<ArticleA>> /\ relevant_articles = <<ArticleA>> /\ idx = 1
    /\ \E m \in MentionPool :
          companies = company_extract(Answer(<<m>>), ArticleA,
                                      DefaultConfig.max_companies_per_article)
    /\ cidx = 1
    /\ unique_people \in GatePeople
    /\ all_company_people = unique_people /\ deduped_people = unique_people
    /\ pidx = 1 /\ all_people = <<>>
    /\ stats = [ZeroStats EXCEPT !.article_people_extracted = Len(unique_people)]
    /\ config \in GateConfigs
    /\ config2 \in GateConfigs
    /\ config2.debug_keep_nonmatching = config.debug_keep_nonmatching
    /\ extract_calls = [l \in {EntryA.link, EntryB.link, EntryNoLink.link} |->
                           IF l = "a" THEN 1 ELSE 0]
    /\ marked_before = {}
    /\ rel_log = <<"yes">> /\ company_calls = <<"a">> /\ person_log = <<>>
    /\ exit_code = -1
    /\ budget = [items |-> 0, extracted |-> 0]
    /\ all_people2 = <<>>
    /\ extract_log = <<"a">>
    /\ csv_file = <<>> /\ sink_writes = <<>> /\ summary = <<>>
    /\ mentions_log = <<>>
    /\ call_log = <<>>
    /\ team_probe = <<>>
    /\ fit_probe = <<>>

\* one person iteration, and the same iteration under config2
VetPersonTwice ==
    /\ pc = "vet"
    /\ \E o \in VettingAnswers :
          /\ VetPersonWith(o)
          /\ all_people2' = all_people2 \o
                 gate_person(vet(o), unique_people[pidx], companies[cidx],
                             relevant_articles[idx].url, config2).accepted
    /\ UNCHANGED <<config2, mentions_log, outVars, auxVars>>

NextGate == VetPersonTwice

SpecGate == InitGate /\ [][NextGate]_vars

\* C7: with everything else identical, when min_response_threshold and
\* min_score_threshold of the second configuration are at least those of the
\* first, the people accepted under the second are among the people accepted
\* under the first.
C7_GateMonotone ==
    (/\ config.min_response_threshold <= config2.min_response_threshold
     /\ config.min_score_threshold <= config2.min_score_threshold)
    => /\ Range(all_people2) \subseteq Range(all_people)
       /\ Len(all_people2) <= Len(all_people)

\* C7 witness: both thresholds raised, two people accepted under the lower
\* pair and one of them under the higher pair
C7_RaisedThresholdsDropOne ==
    /\ config.min_response_threshold < config2.min_response_threshold
    /\ config.min_score_threshold < config2.min_score_threshold
    /\ Len(all_people) = 2 /\ Len(all_people2) = 1

(***************************************************************************)
(* Failure isolation and fatal failures                                    *)
(***************************************************************************)
ArticleUrls(as) == [i \in 1..Len(as) |-> as[i].url]

\* C11: a failure of a single oracle call or page fetch of the extraction
\* stage is skipped for that call only: a run that began company extraction
\* ends only after every relevant article was handed to the company
\* extractor.
C11_FailureIsolated ==
    pc = "done" /\ company_calls # <<>> => company_calls = ArticleUrls(relevant_articles)

\* C12: a failed store write is fatal: when mark_seen raised in a run, the
\* run is over with exit code 1 and has made no relevance check, no company
\* or person extraction, no scoring and no output write.
C12_StoreWriteFailureFatal ==
    db_error =>
        /\ pc = "done" /\ exit_code = 1
        /\ rel_log = <<>> /\ relevant_articles = <<>>
        /\ company_calls = <<>> /\ stats = ZeroStats
        /\ person_log = <<>> /\ all_people = <<>>
        /\ sink_writes = <<>> /\ summary = <<>>

\* a write failed after an earlier item was marked, with articles waiting
C12_WriteFailedWithArticles ==
    db_error /\ articles # <<>> /\ marked # marked_before

ItemsSeen(items) == \A i \in 1..Len(items) : is_seen(seen_urls, items[i].link)

\* C13: the items the dedup filter returned are marked seen after the
\* extraction attempts and before the first relevance check, whether or not
\* an article was extracted: nothing is marked while the extraction loop
\* runs, and once the run is past the marking step without a store failure
\* every new item had its extraction attempt and is seen in the store.
C13_MarkedAfterExtraction ==
    /\ pc = "extract" => marked = marked_before /\ rel_log = <<>>
    /\ pc = "mark" => rel_log = <<>>
    /\ rel_log # <<>> => ItemsSeen(new_items)
    /\ (pc \in {"relevance", "companies", "people", "vet", "output"}
        \/ (pc = "done" /\ extract_log # <<>> /\ ~db_error))
           => /\ extract_log = [i \in 1..Len(new_items) |-> new_items[i].link]
              /\ ItemsSeen(new_items)

\* no article could be extracted, the run ended early, the items are seen
C13_MarkedWithoutArticle ==
    /\ pc = "done" /\ exit_code = 0
    /\ new_items # <<>> /\ articles = <<>>
    /\ ItemsSeen(new_items)

(***************************************************************************)
(* Early termination, output and summary                                   *)
(***************************************************************************)
\* the gates of run(): behind an empty list no later stage has acted, the
\* run is over, and nothing was written
GatesEndTheRun ==
    /\ rss_items = <<>> =>
          /\ new_items = <<>>
          /\ pc \in {"idle", "done"}
    /\ new_items = <<>> =>
          /\ extract_log = <<>> /\ articles = <<>>
          /\ pc \in {"idle", "done"}
          /\ pc = "done" => exit_code = 0 /\ marked = marked_before
    /\ articles = <<>> =>
          /\ rel_log = <<>> /\ relevant_articles = <<>>
          /\ pc \in {"idle", "extract", "mark", "done"}
          /\ pc = "done" /\ ~db_error => exit_code = 0
    /\ relevant_articles = <<>> =>
          /\ company_calls = <<>> /\ person_log = <<>> /\ stats = ZeroStats
          /\ all_people = <<>>
          /\ pc \in {"idle", "extract", "mark", "relevance", "done"}
          /\ pc = "done" /\ ~db_error => exit_code = 0
    /\ all_people = <<>> => sink_writes = <<>>

\* run() at step 6 with nobody accepted: it returns, and writes nothing
EmptyAcceptedSetReturns ==
    pc = "output" /\ all_people = <<>> =>
        pc' = "done" /\ exit_code' = 0 /\ UNCHANGED <<csv_file, sink_writes>>

C15_SummaryAlwaysEmitted ==
    pc = "done" /\ exit_code = 0 => summary = <<stage_counts>>

(***************************************************************************)
(* The debug flag                                                          *)
(***************************************************************************)
\* the scores of a vetting, computed apart from the gates; every company
\* the pipeline builds carries the url of its article
ResponseOf(vetting) == calculate_response_score(vetting, TRUE).score

TotalOf(vetting) ==
    calculate_fit_score(vetting, Preferences, ScoringWeights) + ResponseOf(vetting)

NonMatching(log) == {i \in 1..Len(log) : log[i].vet_ok /\ ~log[i].matches}

\* C16: with debug_keep_nonmatching set, a vetted person that does not
\* match the criteria enters the response gate and is accepted exactly when
\* its response score reaches min_response_threshold and its total score
\* reaches min_score_threshold; with the flag unset such a person is
\* rejected before the response gate.
C16_DebugBypassesCriteriaOnly ==
    \A i \in NonMatching(person_log) :
        LET r == person_log[i]
        IN IF config.debug_keep_nonmatching
           THEN /\ r.gate_score = ResponseOf(r.vetting)
                /\ r.outcome = "accepted" <=>
                      /\ ResponseOf(r.vetting) >= config.min_response_threshold
                      /\ TotalOf(r.vetting) >= config.min_score_threshold
                /\ r.outcome = "accepted" <=> r.accepted # <<>>
           ELSE /\ r.outcome = "failed_vetting" /\ r.gate_score = -1
                /\ r.accepted = <<>>

\* a debug run kept one non-matching person and dropped another one at a
\* score gate
C16_NonMatchingKeptAndDropped ==
    /\ config.debug_keep_nonmatching
    /\ \E i, j \in NonMatching(person_log) :
          /\ person_log[i].outcome = "accepted"
          /\ person_log[j].outcome \in {"failed_response_gate", "failed_score_threshold"}
    /\ Len(all_people) = 1

(***************************************************************************)
(* Step 6 on its own: a run that reaches the writers with several accepted *)
(* people                                                                  *)
(***************************************************************************)
AcmeCompany == [name |-> "Acme", team_page_url |-> "", source_article_url |-> ArticleA.url]

DebugConfig == [DefaultConfig EXCEPT !.debug_keep_nonmatching = TRUE]

\* the person iterations of a debug run that end in all_people
AcceptedIterations ==
    {r \in {gate_person(Answer(v), p, AcmeCompany, ArticleA.url, DebugConfig) :
               p \in PersonPool, v \in VettingPool} : r.outcome = "accepted"}

\* run() at step 6, after person iterations that all ended in all_people
InitOutput ==
    /\ seen_urls = <<[url |-> "a", item_type |-> "article", last_updated |-> 0]>>
    /\ clock = 1 /\ db_error = FALSE /\ marked = {"a"}
    /\ probe = [url |-> "", seen |-> FALSE, was_marked |-> FALSE]
    /\ pc = "output"
    /\ rss_items = fetch_all(<<<<EntryA>>, <<>>>>)
    /\ new_items = rss_items
    /\ articles = <<ArticleA>> /\ relevant_articles = <<ArticleA>> /\ idx = 1
    /\ companies = <<>> /\ cidx = 1
    /\ all_company_people = <<>> /\ deduped_people = <<>> /\ unique_people = <<>>
    /\ pidx = 1
    /\ person_log \in SeqsUpTo(AcceptedIterations, MaxAccepted)
    /\ all_people = [i \in 1..Len(person_log) |-> person_log[i].accepted[1]]
    /\ stats = [ZeroStats EXCEPT !.article_people_extracted = Len(person_log),
                                 !.people_vetted = Len(person_log)]
    /\ config = DebugConfig
    /\ extract_calls = [l \in {EntryA.link, EntryB.link, EntryNoLink.link} |->
                           IF l = "a" THEN 1 ELSE 0]
    /\ marked_before = {}
    /\ rel_log = <<"yes">> /\ company_calls = <<"a">>
    /\ exit_code = -1
    /\ budget = [items |-> 0, extracted |-> 0]
    /\ config2 = DefaultConfig /\ all_people2 = <<>>
    /\ extract_log = <<"a">>
    /\ csv_file = <<>> /\ sink_writes = <<>> /\ summary = <<>>
    /\ mentions_log = <<>>
    /\ call_log = <<>>
    /\ team_probe = <<>>
    /\ fit_probe = <<>>

NextOutput == FinishRun \/ ProcessExit

SpecOutput == InitOutput /\ [][NextOutput]_vars

\* how often x occurs in s
Count(s, x) == Cardinality({i \in 1..Len(s) : s[i] = x})

\* C17: the rows handed to an output sink are the accepted people of the
\* run, each exactly as often as it was accepted, in non-increasing order
\* of total_score.
C17_RowsSortedPermutation ==
    \A k \in 1..Len(sink_writes) :
        LET rows == sink_writes[k].rows
            accepted_rows == [i \in 1..Len(all_people) |-> from_scored_person(all_people[i])]
        IN /\ Len(rows) = Len(all_people)
           /\ \A r \in Range(rows) \cup Range(accepted_rows) :
                 Count(rows, r) = Count(accepted_rows, r)
           /\ \A i, j \in 1..Len(rows) :
                 i < j => rows[i].total_score >= rows[j].total_score

\* both sinks were handed three accepted people that were not in score
\* order, two of them with the same total score
C17_UnorderedAcceptedSetWritten ==
    /\ Len(sink_writes) = 2 /\ Len(all_people) = 3
    /\ all_people[1].total_score < all_people[2].total_score
    /\ all_people[2].total_score = all_people[3].total_score
    /\ all_people[2] # all_people[3]

(***************************************************************************)
(* One relevant article on its own: the company cap                        *)
(***************************************************************************)
\* Limits.max_companies_per_article is an unconstrained int
CompanyCaps == {-1, 0, 1, 10}

\* run() at the head of the loop over its one relevant article
InitCompanies ==
    /\ seen_urls = <<[url |-> "a", item_type |-> "article", last_updated |-> 0]>>
    /\ clock = 1 /\ db_error = FALSE /\ marked = {"a"}
    /\ probe = [url |-> "", seen |-> FALSE, was_marked |-> FALSE]
    /\ pc = "companies"
    /\ rss_items = fetch_all(<<<<EntryA>>, <<>>>>)
    /\ new_items = rss_items
    /\ articles = <<ArticleA>> /\ relevant_articles = <<ArticleA>> /\ idx = 1
    /\ companies = <<>> /\ cidx = 1
    /\ all_company_people = <<>> /\ deduped_people = <<>> /\ unique_people = <<>>
    /\ pidx = 1 /\ all_people = <<>> /\ stats = ZeroStats
    /\ config \in {[DefaultConfig EXCEPT !.max_companies_per_article = n] : n \in CompanyCaps}
    /\ extract_calls = [l \in {EntryA.link, EntryB.link, EntryNoLink.link} |->
                           IF l = "a" THEN 1 ELSE 0]
    /\ marked_before = {}
    /\ rel_log = <<"yes">> /\ company_calls = <<>> /\ person_log = <<>>
    /\ exit_code = -1
    /\ budget = [items |-> 0, extracted |-> MaxMentions]
    /\ config2 = DefaultConfig /\ all_people2 = <<>>
    /\ extract_log = <<"a">>
    /\ csv_file = <<>> /\ sink_writes = <<>> /\ summary = <<>>
    /\ mentions_log = <<>>
    /\ call_log = <<>>
    /\ team_probe = <<>>
    /\ fit_probe = <<>>

\* company_extractor.extract on the article, the oracle's answer kept
ExtractCompaniesLogged ==
    /\ pc = "companies"
    /\ \E o \in MentionAnswers(budget.extracted) :
          ExtractCompaniesWith(o) /\ mentions_log' = o.value
    /\ UNCHANGED <<config2, all_people2, auxVars>>

NextCompanies ==
    \/ ExtractCompaniesLogged
    \/ CollectPeople_
    \/ CollectPeopleRaises
    \/ VetPerson_

SpecCompanies == InitCompanies /\ [][NextCompanies]_vars

\* the mention a company was built from
MentionOf(company) == [name |-> company.name, team_page_url |-> company.team_page_url]

\* C18: the company oracle is asked once for each article, and the
\* companies processed for the article are the first
\* max_companies_per_article mentions it returned, in its order, for every
\* configured max_companies_per_article; their number never exceeds the cap.
C18_CompanyCapEnforced ==
    /\ Len(company_calls) = IF pc = "companies" THEN idx - 1 ELSE idx
    /\ pc \in {"people", "vet"} =>
          LET mentions == mentions_log
              cap == config.max_companies_per_article
          IN /\ Len(companies) <= cap
             /\ [i \in 1..Len(companies) |-> MentionOf(companies[i])] =
                   SubSeq(mentions, 1, Min(Len(mentions), cap))

\* C18 restricted to max_companies_per_article >= 0, where the slice is a prefix
C18_CompanyCapEnforcedNonNegative ==
    config.max_companies_per_article >= 0 => C18_CompanyCapEnforced

\* the oracle returned more mentions than a positive cap lets through
C18_CapCutsMentions ==
    /\ pc \in {"people", "vet"}
    /\ config.max_companies_per_article > 0
    /\ Len(mentions_log) > Len(companies)

(***************************************************************************)
(* The response score on its own: person iterations over vettings with     *)
(* every seniority and role of interest, no gate rejecting anybody         *)
(***************************************************************************)
Seniorities ==
    {<<>>,
     <<"V","P">>,
     <<"D","i","r","e","c","t","o","r">>,
     <<"C","E","O">>,
     <<"S","e","n","i","o","r">>,
     <<"S","e","n","i","o","r"," ","V","P">>}

Roles ==
    {<<>>,
     <<"R","e","c","r","u","i","t","i","n","g">>,
     <<"S","a","l","e","s">>,
     <<"H","R"," ","a","n","d"," ","S","a","l","e","s">>,
     <<"E","n","g","i","n","e","e","r","i","n","g">>}

ScoreVettings ==
    {[NoVetting EXCEPT !.seniority_level = s, !.role_category = r] :
        s \in Seniorities, r \in Roles}

\* debug mode and thresholds of zero: every vetted person is scored and kept
ScoreConfig ==
    [DefaultConfig EXCEPT !.debug_keep_nonmatching = TRUE,
                          !.min_response_threshold = 0,
                          !.min_score_threshold = 0]

\* run() at the head of the person loop of its first company
InitScore ==
    /\ seen_urls = <<[url |-> "a", item_type |-> "article", last_updated |-> 0]>>
    /\ clock = 1 /\ db_error = FALSE /\ marked = {"a"}
    /\ probe = [url |-> "", seen |-> FALSE, was_marked |-> FALSE]
    /\ pc = "vet"
    /\ rss_items = fetch_all(<<<<EntryA>>, <<>>>>)
    /\ new_items = rss_items
    /\ articles = <<ArticleA>> /\ relevant_articles = <<ArticleA>> /\ idx = 1
    /\ \E m \in MentionPool :
          companies = company_extract(Answer(<<m>>), ArticleA,
                                      ScoreConfig.max_companies_per_article)
    /\ cidx = 1
    /\ unique_people \in GatePeople
    /\ all_company_people = unique_people /\ deduped_people = unique_people
    /\ pidx = 1 /\ all_people = <<>>
    /\ stats = [ZeroStats EXCEPT !.article_people_extracted = Len(unique_people)]
    /\ config = ScoreConfig
    /\ extract_calls = [l \in {EntryA.link, EntryB.link, EntryNoLink.link} |->
                           IF l = "a" THEN 1 ELSE 0]
    /\ marked_before = {}
    /\ rel_log = <<"yes">> /\ company_calls = <<"a">> /\ person_log = <<>>
    /\ exit_code = -1
    /\ budget = [items |-> 0, extracted |-> 0]
    /\ config2 = ScoreConfig /\ all_people2 = <<>>
    /\ extract_log = <<"a">>
    /\ csv_file = <<>> /\ sink_writes = <<>> /\ summary = <<>>
    /\ mentions_log = <<>>
    /\ call_log = <<>>
    /\ team_probe = <<>>
    /\ fit_probe = <<>>

\* one person iteration on a vetting the oracle returned
ScorePerson ==
    /\ pc = "vet"
    /\ \E v \in ScoreVettings : VetPersonWith(Answer(v))
    /\ UNCHANGED <<replayVars, outVars>>

NextScore == ScorePerson

SpecScore == InitScore /\ [][NextScore]_vars

SeniorityReasons == {"C-level", "Director/VP", "Senior IC"}

\* the reasons of the trail that are in the set, in trail order
ReasonsIn(trail, set) ==
    Flatten([i \in 1..Len(trail) |-> IF trail[i] \in set THEN <<trail[i]>> ELSE <<>>])

\* response score of the vetting with its seniority cleared
WithoutSeniority(vetting) == ResponseOf([vetting EXCEPT !.seniority_level = <<>>])

\* at most one seniority adjustment, that of the first group with a keyword
\* in the lower-cased seniority
SeniorityFirstMatch ==
    \A i \in 1..Len(person_log) :
        LET v == person_log[i].vetting
            level == lower(v.seniority_level)
            fired == ReasonsIn(person_log[i].accepted[1].response_reasons, SeniorityReasons)
        IN /\ Len(fired) <= 1
           /\ fired = IF any_in(KwCLevel, level) THEN <<"C-level">>
                      ELSE IF any_in(KwVpDirector, level) THEN <<"Director/VP">>
                      ELSE IF any_in(KwSeniorIc, level) THEN <<"Senior IC">>
                      ELSE <<>>

\* a seniority of "VP" or "Director" lowers the score by 0.1
VpAndDirectorLowerByTenth ==
    \A i \in 1..Len(person_log) :
        LET v == person_log[i].vetting
        IN lower(v.seniority_level) \in Range(KwVpDirector) =>
              person_log[i].gate_score = WithoutSeniority(v) - VpDirectorAdjust

\* C19: at most one seniority adjustment applies, that of the first group
\* in the order C-level, VP/Director, Senior-IC with a keyword in the vetted
\* seniority; a vetted seniority of "VP" or "Director" lowers the response
\* score by exactly 0.1.
C19_SeniorityAdjustment == SeniorityFirstMatch /\ VpAndDirectorLowerByTenth

RoleReasons == {"Recruiting", "BD/Sales"}

\* C20: a vetted role with a recruiting/HR/people keyword and a
\* BD/sales/business-development keyword receives +0.2 and +0.15 before
\* clamping, and its reason trail lists both rules in firing order.
C20_RoleGroupsIndependent ==
    \A i \in 1..Len(person_log) :
        LET v == person_log[i].vetting
            role == lower(v.role_category)
            without_role == ResponseOf([v EXCEPT !.role_category = <<>>])
        IN any_in(KwRecruiting, role) /\ any_in(KwBdSales, role) =>
              /\ person_log[i].gate_score =
                    clamp_score(without_role + RecruitingAdjust + BdSalesAdjust)
              /\ ReasonsIn(person_log[i].accepted[1].response_reasons, RoleReasons) =
                    <<"Recruiting", "BD/Sales">>

(***************************************************************************)
(* The fit score on its own: calculate_fit_score applied to one vetting    *)
(* under one set of preferences and weights.                               *)
(***************************************************************************)

FitVettings ==
    {[NoVetting EXCEPT !.school = s, !.role_category = r, !.seniority_level = l,
                       !.location = c, !.industry_experience = i] :
        s \in {<<>>, <<"m","i","t">>, <<"y","a","l","e">>},
        r \in {<<>>, <<"S","W","E">>},
        l \in {<<>>, <<"S","e","n","i","o","r">>, <<"S","r">>},
        c \in {<<>>, <<"N","Y">>, <<"N","Y","C","X">>},
        i \in {<<>>,
              << <<"a","i">> >>,
              << <<"a","i">>, <<"F","i","n">> >>,
              << <<"f","i","n">>, <<"f","i","n">> >>,
              << <<"f","i","n","t","e","c","h">>, <<"a","i">>, <<"f","i">> >>}}

InitFit ==
    /\ StoreIdle
    /\ RunLocalsInit
    /\ pc = "idle" /\ config = DefaultConfig
    /\ extract_calls = [l \in {EntryA.link, EntryB.link, EntryNoLink.link} |-> 0]
    /\ marked_before = {}
    /\ exit_code = -1
    /\ budget = [items |-> 0, extracted |-> 0]
    /\ config2 = DefaultConfig /\ all_people2 = <<>> /\ mentions_log = <<>>
    /\ call_log = <<>>
    /\ team_probe = <<>>
    /\ csv_file = <<>>
    /\ \E v \in FitVettings,
          p \in [schools : {<<>>, << <<"M","I","T">> >>, << <<"M","I","T">>, <<"i","t">> >>},
                roles : {<<>>, << <<"s","w">> >>},
                industries : {<<>>, << <<"f","i","n">> >>, << <<"F","I","N">>, <<"a","i">> >>},
                seniority_levels : {<<>>, << <<"s","e","n","i","o","r","s">>, <<"s","r">> >>},
                locations : {<<>>, << <<"n","y","c">> >>}],
          w \in {ScoringWeights,
                [school_match |-> 70, role_match |-> 110, industry_match |-> 130,
                 seniority_match |-> 170, location_match |-> 190]} :
          fit_probe = [vetting |-> v, preferences |-> p, weights |-> w,
                       called |-> FALSE, score |-> 0]

ApplyFitScore ==
    /\ fit_probe.called = FALSE
    /\ fit_probe' = [fit_probe EXCEPT
                        !.called = TRUE,
                        !.score = calculate_fit_score(fit_probe.vetting,
                                                      fit_probe.preferences,
                                                      fit_probe.weights)]
    /\ UNCHANGED <<storeVars, runVars, outVars, config2, all_people2, mentions_log,
                   team_probe, call_log>>

SpecFit == InitFit /\ [][ApplyFitScore]_vars

\* some target is a case-insensitive substring of the vetted value
TargetInVetted(targets, value) ==
    \E t \in Range(targets) : contains(lower(t), lower(value))

\* the vetted value and some target contain one another
ContainEachOther(targets, value) ==
    \E t \in Range(targets) :
        contains(lower(t), lower(value)) \/ contains(lower(value), lower(t))

\* the number of vetted industry tags that contain or are contained in a target
MatchingTags(tags, targets) ==
    Cardinality({i \in DOMAIN tags : ContainEachOther(targets, tags[i])})

FitFormula(v, p, w) ==
    (IF v.school # <<>> /\ TargetInVetted(p.schools, v.school)
     THEN w.school_match ELSE 0)
    + (IF v.role_category # <<>> /\ TargetInVetted(p.roles, v.role_category)
       THEN w.role_match ELSE 0)
    + (IF v.seniority_level # <<>>
          /\ TargetInVetted(p.seniority_levels, v.seniority_level)
       THEN w.seniority_match ELSE 0)
    + (IF v.location # <<>> /\ ContainEachOther(p.locations, v.location)
       THEN w.location_match ELSE 0)
    + w.industry_match * MatchingTags(v.industry_experience, p.industries)

\* C21: the fit score is the sum of the school, role and seniority weights
\* when some target is a case-insensitive substring of the vetted value, the
\* location weight when the vetted location and some target contain one
\* another, and the industry weight once per vetted industry tag that
\* contains or is contained in a target; an empty vetted value or an empty
\* target list contributes nothing.
C21_FitScoreFormula ==
    (fit_probe # <<>> /\ fit_probe.called)
    => fit_probe.score = FitFormula(fit_probe.vetting, fit_probe.preferences,
                                    fit_probe.weights)

\* a scored vetting with two matching school targets, two matching industry
\* tags and a vetted location contained in its target
C21_SeveralMatchesScored ==
    /\ fit_probe # <<>> /\ fit_probe.called
    /\ Len(fit_probe.preferences.schools) = 2
    /\ fit_probe.vetting.school = <<"m","i","t">>
    /\ fit_probe.vetting.location = <<"N","Y">>
    /\ fit_probe.preferences.locations # <<>>
    /\ MatchingTags(fit_probe.vetting.industry_experience,
                    fit_probe.preferences.industries) = 2
    /\ fit_probe.weights = ScoringWeights
    /\ fit_probe.score >= 100 + 30 + 200

(***************************************************************************)
(* find_team_urls on its own: the website tiers, the calls made and the    *)
(* list returned, for one company, one answer of the website oracle and    *)
(* one homepage.                                                           *)
(***************************************************************************)

\* str.isalnum over the characters of the model
isalnum(s) ==
    /\ s # <<>>
    /\ \A i \in 1..Len(s) :
          s[i] \in Range(LowerCase) \cup Range(UpperCase)
                  \cup {"0","1","2","3","4","5","6","7","8","9"}

\* the suffix loop of _infer_website_from_name: every suffix in turn, on
\* what the earlier ones left
RECURSIVE remove_suffixes(_, _)
remove_suffixes(name, suffixes) ==
    IF suffixes = <<>> THEN name
    ELSE LET suffix == Head(suffixes)
             endswith == /\ Len(suffix) <= Len(name)
                         /\ SubSeq(name, Len(name) - Len(suffix) + 1, Len(name)) = suffix
         IN remove_suffixes(
               IF endswith THEN strip(SubSeq(name, 1, Len(name) - Len(suffix)))
               ELSE name,
               Tail(suffixes))

HeuristicMaxLen == 20

\* _infer_website_from_name: <<>> stands for None
infer_website_from_name(company_name) ==
    LET suffixes == <<<<" ","i","n","c">>,
                        <<" ","i","n","c",".">>,
                        <<" ","l","l","c">>,
                        <<" ","l","t","d">>,
                        <<" ","c","o","r","p">>,
                        <<" ","c","o","r","p","o","r","a","t","i","o","n">>>>
        name == remove_suffixes(strip(lower(company_name)), suffixes)
        domain == SelectSeq(name, LAMBDA c : c \notin {" ", "-", "_"})
    IN IF Len(domain) <= HeuristicMaxLen /\ isalnum(domain)
       THEN <<"h","t","t","p","s",":","/","/">> \o domain \o <<".","c","o","m">>
       ELSE <<>>

ConfidenceThreshold == 50

\* faulty variant: a confidence of exactly 0.5 accepted
extract_website_from_article_at_threshold(outcome) ==
    IF outcome.ok /\ outcome.value.website_url # <<>>
       /\ outcome.value.confidence >= ConfidenceThreshold
    THEN outcome.value.website_url
    ELSE <<>>

\* _extract_website_from_article on the outcome of the oracle call (the
\* confidence in hundredths): <<>> stands for None
extract_website_from_article(outcome) ==
    IF outcome.ok /\ outcome.value.website_url # <<>>
       /\ outcome.value.confidence > ConfidenceThreshold
    THEN outcome.value.website_url
    ELSE <<>>

\* tiers 2 and 3 of find_team_urls
resolve_website(company_name, outcome) ==
    LET website_url == extract_website_from_article(outcome)
    IN IF website_url = <<>> THEN infer_website_from_name(company_name)
       ELSE website_url

\* the external calls find_team_urls makes, in order
find_team_urls_calls(company, website_url) ==
    IF company.team_page_url # "" THEN <<>>
    ELSE <<"website inference">>
         \o (IF website_url # <<>> /\ ~urlparse(website_url).raises
             THEN <<"homepage fetch">> ELSE <<>>)

PathWebsite == <<"h","t","t","p","s",":","/","/","a",".","c","o","/","x">>

TeamCompanies ==
    [name : {<<"A","c","m","e">>,
            <<" ","A","c","m","e"," ","I","n","c","."," ">>,
            <<"B","i","g","-","C","o"," ","C","o","r","p"," ","I","n","c">>,
            <<"A","&","B">>,
            <<>>,
            <<"A","b","c","d","e","f","g","h","i","j"," ","K","l","m","n","o","p","q","r","s","t","u">>},
     team_page_url : {"", "acme/team"},
     source_article_url : {"a"}]

WebsiteAnswers ==
    {Failed([website_url |-> <<>>, confidence |-> 0])}
    \cup {Answer([website_url |-> w, confidence |-> c]) :
            w \in {<<>>, AcmeWebsite, BracketWebsite, PathWebsite,
                   <<"a",".","c","o">>,
                   <<"f","o","o",":","/","/","a",".","c","o">>},
            c \in {ConfidenceThreshold, ConfidenceThreshold + 1, 100}}

\* what urljoin(website_url, href) made of the links the scrape kept
ScrapedUrls == {<<AcmeWebsite, "/team">>, <<AcmeWebsite, "/crew">>, <<<<>>, "/team">>}

\* a failed fetch returns the empty list; the scrape keeps no URL twice
ScrapedLinks ==
    {<<>>}
    \cup {<<u>> : u \in ScrapedUrls}
    \cup {p \in ScrapedUrls \X ScrapedUrls : p[1] # p[2]}

InitTeam ==
    /\ StoreIdle
    /\ RunLocalsInit
    /\ pc = "idle" /\ config = DefaultConfig
    /\ extract_calls = [l \in {EntryA.link, EntryB.link, EntryNoLink.link} |-> 0]
    /\ marked_before = {}
    /\ exit_code = -1
    /\ budget = [items |-> 0, extracted |-> 0]
    /\ config2 = DefaultConfig /\ all_people2 = <<>> /\ mentions_log = <<>>
    /\ call_log = <<>>
    /\ fit_probe = <<>> /\ call_log = <<>>
    /\ csv_file = <<>>
    /\ \E c \in TeamCompanies, o \in WebsiteAnswers, h \in ScrapedLinks :
          team_probe = [company |-> c, oracle |-> o, homepage |-> h,
                        called |-> FALSE, website_url |-> <<>>, raised |-> FALSE,
                        calls |-> <<>>, result |-> <<>>]

\* find_team_urls(company, article)
FindTeamUrls ==
    /\ team_probe.called = FALSE
    /\ LET company == team_probe.company
           website_url == IF company.team_page_url # "" THEN <<>>
                          ELSE resolve_website(company.name, team_probe.oracle)
           raises == find_team_urls_raises(company, website_url)
       IN team_probe' = [team_probe EXCEPT
                           !.called = TRUE,
                           !.website_url = website_url,
                           !.raised = raises,
                           !.calls = find_team_urls_calls(company, website_url),
                           !.result = IF raises THEN <<>>
                                      ELSE find_team_urls(company, website_url,
                                                          team_probe.homepage)]
    /\ UNCHANGED <<storeVars, runVars, outVars, config2, all_people2,
                   mentions_log, fit_probe, call_log>>

SpecTeam == InitTeam /\ [][FindTeamUrls]_vars

TeamProbed == team_probe # <<>> /\ team_probe.called

\* the oracle call succeeded and named a website with confidence above 0.5
OracleYields(outcome) ==
    /\ outcome.ok /\ outcome.value.website_url # <<>>
    /\ outcome.value.confidence > 50

\* C22: the sources are consulted in the order known team_page_url, oracle
\* website, name heuristic, each only when the earlier ones yielded nothing;
\* a known team_page_url yields that single URL with no oracle call and no
\* fetch; the oracle website is used only with a confidence strictly above
\* 0.5; with no website the result is the empty list.
C22_TeamUrlCascade ==
    TeamProbed =>
      LET company == team_probe.company
          oracle == team_probe.oracle
      IN /\ company.team_page_url # ""
              => /\ team_probe.result = << <<company.team_page_url, "">> >>
                 /\ team_probe.calls = <<>>
                 /\ team_probe.website_url = <<>>
         /\ (company.team_page_url = "" /\ OracleYields(oracle))
              => team_probe.website_url = oracle.value.website_url
         /\ (company.team_page_url = "" /\ ~OracleYields(oracle))
              => team_probe.website_url = infer_website_from_name(company.name)
         /\ company.team_page_url = "" => Head(team_probe.calls) = "website inference"
         /\ (company.team_page_url = "" /\ team_probe.website_url = <<>>)
              => /\ team_probe.result = <<>> /\ ~team_probe.raised
                 /\ team_probe.calls = <<"website inference">>

\* an oracle website at confidence exactly 0.5 passed over for the heuristic
C22_ThresholdFallsThrough ==
    /\ TeamProbed
    /\ team_probe.company.team_page_url = ""
    /\ team_probe.oracle.ok
    /\ team_probe.oracle.value.website_url = AcmeWebsite
    /\ team_probe.oracle.value.confidence = 50
    /\ team_probe.website_url = <<"h","t","t","p","s",":","/","/","a","c","m","e",".","c","o","m">>
    /\ Len(team_probe.result) = TeamUrlCap

\* the URL of the first tier aside, the list find_team_urls built on a website
WebsiteListed ==
    /\ TeamProbed
    /\ team_probe.company.team_page_url = ""
    /\ team_probe.website_url # <<>>
    /\ ~team_probe.raised

\* C23: with a website resolved, the returned list is the fixed path
\* candidates followed by the homepage links, every later duplicate removed
\* in first-seen order, cut to its first five entries; it never holds more
\* than five URLs and never the same URL twice.
C23_MergedDedupedCapped ==
    WebsiteListed =>
      LET merged == generate_candidate_urls(team_probe.website_url)
                    \o team_probe.homepage
          first_seen == {i \in DOMAIN merged :
                            \A j \in 1..(i - 1) : merged[j] # merged[i]}
          nth(k) == CHOOSE i \in first_seen :
                        Cardinality({j \in first_seen : j < i}) = k - 1
          n == IF Cardinality(first_seen) < 5 THEN Cardinality(first_seen) ELSE 5
          result == team_probe.result
      IN /\ result = [k \in 1..n |-> merged[nth(k)]]
         /\ Len(result) <= 5
         /\ \A i, j \in DOMAIN result : i # j => result[i] # result[j]

\* a homepage with a link that repeats a path candidate and a link that is new
C23_HomepageRepeatsCandidate ==
    /\ WebsiteListed
    /\ team_probe.website_url = AcmeWebsite
    /\ team_probe.homepage = << <<AcmeWebsite, "/team">>, <<AcmeWebsite, "/crew">> >>
    /\ Len(team_probe.result) = 5

collect_people_calls(company, website_url, fetched) ==
    <<"article-people extraction", "sleep">>
    \o find_team_urls_calls(company, website_url)
    \o Flatten([i \in 1..Len(fetched) |->
                   <<"team-page fetch">>
                   \o (IF fetched[i] THEN <<"team-page extraction">> ELSE <<>>)
                   \o <<"sleep">>])

ExtractCompaniesTimed ==
    /\ pc = "companies"
    /\ \E o \in MentionAnswers(budget.extracted) : ExtractCompaniesWith(o)
    /\ call_log' = call_log \o <<"company extraction", "sleep">>
    /\ UNCHANGED <<config2, all_people2, mentions_log, fit_probe, team_probe>>

CollectPeopleTimed ==
    /\ pc = "people"
    /\ \E o \in PeopleAnswers(PersonPool, budget.extracted),
          w \in Websites, h \in HomepageLinks :
         /\ ~find_team_urls_raises(companies[cidx], w)
         /\ \E t \in TeamAnswers(PersonPool, Len(find_team_urls(companies[cidx], w, h)),
                              budget.extracted - Len(o.value)) :
            \E fetched \in [1..Len(t) -> BOOLEAN] :
               /\ \A i \in 1..Len(t) : t[i].ok => fetched[i]
               /\ CollectPeopleWith(o, t)
               /\ call_log' = call_log
                                \o collect_people_calls(companies[cidx], w, fetched)
    /\ UNCHANGED <<config2, all_people2, mentions_log, fit_probe, team_probe, outVars>>

\* the exception of find_team_urls leaves run() after the website inference
CollectPeopleRaisesTimed ==
    /\ pc = "people"
    /\ \E o \in PeopleAnswers(PersonPool, budget.extracted), w \in Websites :
         /\ find_team_urls_raises(companies[cidx], w)
         /\ CollectPeopleRaisesWith(o)
         /\ call_log' = call_log \o <<"article-people extraction", "sleep">>
                                 \o find_team_urls_calls(companies[cidx], w)
    /\ UNCHANGED <<config2, all_people2, mentions_log, fit_probe, team_probe>>

VetPersonTimed ==
    /\ pc = "vet"
    /\ \E o \in VettingAnswers : VetPersonWith(o)
    /\ call_log' = call_log \o <<"vetting", "sleep">>
    /\ UNCHANGED <<config2, all_people2, mentions_log, fit_probe, team_probe, outVars>>

NextDelay ==
    \/ ExtractCompaniesTimed
    \/ CollectPeopleTimed
    \/ CollectPeopleRaisesTimed
    \/ VetPersonTimed

SpecDelay == InitCompanies /\ [][NextDelay]_vars

\* C24: no two external calls are issued back to back: between an outbound
\* fetch or oracle call and the next one there is a blocking delay.
C24_DelayBetweenCalls ==
    \A i \in 1..(Len(call_log) - 1) :
        call_log[i] = "sleep" \/ call_log[i + 1] = "sleep"

(***************************************************************************)
(* Runs over feeds with entries that have no link                          *)
(***************************************************************************)

LinklessFeedPool ==
    << {<<>>, <<EntryA>>, <<EntryNoLink>>},
       {<<>>, <<EntryNoLink>>, <<[link |-> "", guid |-> "g2"]>>} >>

\* an empty store and an oracle that names no company
InitLinkless ==
    /\ StoreIdle
    /\ RunLocalsInit
    /\ pc = "idle" /\ config = DefaultConfig
    /\ extract_calls = [l \in {EntryA.link, EntryB.link, EntryNoLink.link} |-> 0]
    /\ marked_before = {}
    /\ exit_code = -1
    /\ budget = [items |-> MaxItems + 1, extracted |-> 0]
    /\ config2 = DefaultConfig /\ all_people2 = <<>> /\ mentions_log = <<>>
    /\ fit_probe = <<>> /\ team_probe = <<>> /\ call_log = <<>>
    /\ csv_file = <<>>

RunBeginLinkless ==
    /\ pc = "idle"
    /\ \E fr \in [1..Len(Feeds) -> UNION Range(LinklessFeedPool)] :
          /\ \A f \in 1..Len(Feeds) : fr[f] \in LinklessFeedPool[f]
          /\ Len(fr[1]) + Len(fr[2]) <= budget.items
          /\ RunBeginWith(DefaultConfig, fr)

NextLinkless ==
    \/ RunBeginLinkless
    \/ ExtractArticle
    \/ MarkItemsSeen
    \/ RelevanceCheck
    \/ ExtractCompanies
    \/ FinishRun
    \/ ProcessExit

SpecLinkless == InitLinkless /\ [][NextLinkless]_vars

\* C25: an item without a link is keyed by its guid: the filter drops it
\* only when its guid is in the store, and once mark_items_seen has
\* returned its guid is in the store, so that link-less items with
\* different guids are told apart.
C25_LinklessKeyedByGuid ==
    /\ \A i \in DOMAIN rss_items :
          (rss_items[i].link = "" /\ rss_items[i] \notin Range(new_items))
             => is_seen(seen_urls, rss_items[i].guid)
    /\ (pc \notin {"idle", "extract", "mark"} /\ ~db_error)
          => \A i \in DOMAIN new_items :
                new_items[i].link = "" => is_seen(seen_urls, new_items[i].guid)

\* C26: between two persons and at the end of the extraction stage,
\* people_vetted = failed_vetting + failed_response_gate +
\* failed_score_threshold + the number of accepted persons, and every
\* person that entered vetting ended in exactly one of the four outcomes.
C26_StageCountsConserved ==
    /\ stats.people_vetted = stats.failed_vetting + stats.failed_response_gate
                             + stats.failed_score_threshold + Len(all_people)
    /\ stats.people_vetted = Len(person_log)
    /\ \A i \in DOMAIN person_log :
          /\ person_log[i].outcome \in {"failed_vetting", "failed_response_gate",
                                        "failed_score_threshold", "accepted"}
          /\ person_log[i].outcome = "accepted" <=> person_log[i].accepted # <<>>
    /\ \A o \in {"failed_vetting", "failed_response_gate", "failed_score_threshold"} :
          stats[o] = Cardinality({i \in DOMAIN person_log : person_log[i].outcome = o})

\* two persons vetted: one turned away at the response gate, one accepted
C26_OneGatedOneAccepted ==
    /\ stats.people_vetted = 2
    /\ stats.failed_response_gate = 1
    /\ Len(all_people) = 1
    /\ pc = "output"

(***************************************************************************)
(* The response gate under thresholds of at most 0.5                       *)
(***************************************************************************)

\* run() at the head of the person loop of its first company, under a
\* response threshold of at most 0.5
InitFloor ==
    /\ seen_urls = <<[url |-> "a", item_type |-> "article", last_updated |-> 0]>>
    /\ clock = 1 /\ db_error = FALSE /\ marked = {"a"}
    /\ probe = [url |-> "", seen |-> FALSE, was_marked |-> FALSE]
    /\ pc = "vet"
    /\ rss_items = fetch_all(<<<<EntryA>>, <<>>>>)
    /\ new_items = rss_items
    /\ articles = <<ArticleA>> /\ relevant_articles = <<ArticleA>> /\ idx = 1
    /\ \E m \in MentionPool :
          companies = company_extract(Answer(<<m>>), ArticleA,
                                      ScoreConfig.max_companies_per_article)
    /\ cidx = 1
    /\ unique_people \in GatePeople
    /\ all_company_people = unique_people /\ deduped_people = unique_people
    /\ pidx = 1 /\ all_people = <<>>
    /\ stats = [ZeroStats EXCEPT !.article_people_extracted = Len(unique_people)]
    /\ config \in {[ScoreConfig EXCEPT !.min_response_threshold = r] : r \in {0, 30, 50}}
    /\ extract_calls = [l \in {EntryA.link, EntryB.link, EntryNoLink.link} |->
                           IF l = "a" THEN 1 ELSE 0]
    /\ marked_before = {}
    /\ rel_log = <<"yes">> /\ company_calls = <<"a">> /\ person_log = <<>>
    /\ exit_code = -1
    /\ budget = [items |-> 0, extracted |-> 0]
    /\ config2 = ScoreConfig /\ all_people2 = <<>>
    /\ extract_log = <<"a">>
    /\ csv_file = <<>> /\ sink_writes = <<>> /\ summary = <<>>
    /\ mentions_log = <<>>
    /\ call_log = <<>>
    /\ team_probe = <<>>
    /\ fit_probe = <<>>

SpecFloor == InitFloor /\ [][NextScore]_vars

\* C27: every company carries a source article URL, so every response score
\* computed in a run is at least 0.5 and at most 1.0, and under a response
\* threshold of at most 0.5 nobody is turned away at the response gate:
\* failed_response_gate stays 0.
C27_ResponseFloor ==
    /\ \A i \in DOMAIN companies : companies[i].source_article_url # ""
    /\ \A i \in DOMAIN person_log :
          person_log[i].outcome # "failed_vetting"
             => /\ person_log[i].gate_score >= 50
                /\ person_log[i].gate_score <= 100
    /\ config.min_response_threshold <= 50
          => /\ stats.failed_response_gate = 0
             /\ \A i \in DOMAIN person_log :
                   person_log[i].outcome # "failed_response_gate"

\* a person whose response score is exactly the threshold of 0.5, accepted
C27_AcceptedAtTheFloor ==
    /\ config.min_response_threshold = 50
    /\ \E i \in DOMAIN person_log :
          /\ person_log[i].gate_score = 50
          /\ person_log[i].outcome = "accepted"
          /\ "C-level" \in Range(person_log[i].accepted[1].response_reasons)

(***************************************************************************)
(* A run after an earlier run that wrote the output file                   *)
(***************************************************************************)

\* between two runs: article "a" is in the store, and csv_file is what a
\* debug run on article "a" that accepted one person left
InitReplace ==
    /\ seen_urls = <<[url |-> "a", item_type |-> "article", last_updated |-> 0]>>
    /\ clock = 1 /\ db_error = FALSE /\ marked = {"a"}
    /\ probe = [url |-> "", seen |-> FALSE, was_marked |-> FALSE]
    /\ RunLocalsInit
    /\ pc = "idle" /\ config = DefaultConfig
    /\ extract_calls = [l \in {EntryA.link, EntryB.link, EntryNoLink.link} |->
                           IF l = "a" THEN 1 ELSE 0]
    /\ marked_before = {}
    /\ exit_code = -1
    /\ budget = [items |-> 1, extracted |-> MaxExtracted]
    /\ config2 = DefaultConfig /\ all_people2 = <<>> /\ mentions_log = <<>>
    /\ fit_probe = <<>> /\ team_probe = <<>> /\ call_log = <<>>
    /\ csv_file \in {output_rows(<<r.accepted[1]>>) : r \in AcceptedIterations}

SpecReplace == InitReplace /\ [][Next]_vars

PersonOf(row) == <<row.name, row.linkedin_url>>

\* step 6 of a run with a non-empty accepted set
WritingStep == pc = "output" /\ all_people # <<>>

OnlyWritingRunsTouchOutput == WritingStep \/ csv_file' = csv_file

EarlierPersonStaysOnlyIfAcceptedAgain ==
    (WritingStep /\ exit_code' = 0)
    => \A i \in DOMAIN csv_file :
          (\E j \in DOMAIN csv_file' : PersonOf(csv_file'[j]) = PersonOf(csv_file[i]))
          => \E k \in DOMAIN all_people :
                PersonOf(from_scored_person(all_people[k])) = PersonOf(csv_file[i])

InitDuplicates ==
    /\ seen_urls = <<[url |-> "a", item_type |-> "article", last_updated |-> 0]>>
    /\ clock = 1 /\ db_error = FALSE /\ marked = {"a"}
    /\ probe = [url |-> "", seen |-> FALSE, was_marked |-> FALSE]
    /\ pc = "companies"
    /\ rss_items = fetch_all(<<<<EntryA>>, <<>>>>)
    /\ new_items = rss_items
    /\ articles = <<ArticleA>> /\ relevant_articles = <<ArticleA>> /\ idx = 1
    /\ companies = <<>> /\ cidx = 1
    /\ all_company_people = <<>> /\ deduped_people = <<>> /\ unique_people = <<>>
    /\ pidx = 1 /\ all_people = <<>> /\ stats = ZeroStats
    /\ config = DefaultConfig
    /\ extract_calls = [l \in {EntryA.link, EntryB.link, EntryNoLink.link} |->
                           IF l = "a" THEN 1 ELSE 0]
    /\ marked_before = {}
    /\ rel_log = <<"yes">> /\ company_calls = <<>> /\ person_log = <<>>
    /\ exit_code = -1
    /\ budget = [items |-> 0, extracted |-> MaxMentions + 1]
    /\ config2 = DefaultConfig /\ all_people2 = <<>>
    /\ extract_log = <<"a">>
    /\ csv_file = <<>> /\ sink_writes = <<>> /\ summary = <<>>
    /\ mentions_log = <<>>
    /\ call_log = <<>>
    /\ team_probe = <<>>
    /\ fit_probe = <<>>

SpecDuplicates == InitDuplicates /\ [][NextCompanies]_vars

\* C30: the accepted set never holds two records with the same source
\* article URL, the same company name and the same person dedup key,
\* whatever list of mentions the oracle returned for the article.
C30_NoDuplicateCandidate ==
    \A i, j \in DOMAIN all_people :
        (/\ all_people[i].source_article_url = all_people[j].source_article_url
         /\ all_people[i].company_name = all_people[j].company_name
         /\ person_key(all_people[i]) = person_key(all_people[j]))
        => i = j

====
